---- MODULE Spec2Model ----
(***************************************************************************)
(* Model of the RSA subsystem of rustopals: src/src/rsa (keys, textbook    *)
(* transform, PKCS#1 v1.5 padding, modular arithmetic utilities) and of    *)
(* the attack routines of src/tests/set5 and src/tests/set6.               *)
(*                                                                         *)
(* num_bigint::BigUint is modelled as the big-endian sequence of the bytes *)
(* of the number without leading zero bytes (zero is the empty sequence),  *)
(* so that to_bytes_be / from_bytes_be are real conversions and numbers of *)
(* any size can be computed with.  BigInt is a sign and a magnitude.       *)
(***************************************************************************)
EXTENDS Integers, Sequences, FiniteSets, TLC

(***************************************************************************)
(* num_bigint arithmetic on byte sequences.                                *)
(***************************************************************************)

\* The radix of a byte (u8).
ByteBase == 256

\* Length of the runs the sequential passes are cut into (evaluation depth only).
Chunk == 16

MinI(x, y) == IF x < y THEN x ELSE y

MaxI(x, y) == IF x > y THEN x ELSE y

\* BigUint::from_bytes_be: leading zero bytes carry no value.
RECURSIVE FirstNonZero(_, _, _)
FirstNonZero(b, lo, hi) ==
  IF lo > hi THEN hi + 1
  ELSE IF lo = hi THEN (IF b[lo] = 0 THEN hi + 1 ELSE lo)
  ELSE LET mid == (lo + hi) \div 2
       IN IF \A i \in lo..mid : b[i] = 0
          THEN FirstNonZero(b, mid + 1, hi)
          ELSE FirstNonZero(b, lo, mid)

from_bytes_be(b) == SubSeq(b, FirstNonZero(b, 1, Len(b)), Len(b))

\* BigUint::to_bytes_be: zero is the single byte 0.
to_bytes_be(x) == IF x = <<>> THEN <<0>> ELSE x

Zero == <<>>

One == <<1>>

\* BigUint::from(usize) for a machine integer.
RECURSIVE BigFrom(_)
BigFrom(k) == IF k = 0 THEN <<>> ELSE Append(BigFrom(k \div ByteBase), k % ByteBase)

\* The machine integer of a BigUint that fits one (at most 3 bytes are read).
ToNat(x) ==
  IF Len(x) = 0 THEN 0
  ELSE IF Len(x) = 1 THEN x[1]
  ELSE IF Len(x) = 2 THEN x[1] * ByteBase + x[2]
  ELSE (x[Len(x) - 2] * ByteBase + x[Len(x) - 1]) * ByteBase + x[Len(x)]

\* Byte i (0 = least significant) of x.
Dg(x, i) == IF i < Len(x) THEN x[Len(x) - i] ELSE 0

\* Carry propagation over positions i..hi of the little-endian columns v: the
\* digits of those positions, least significant first, then the carry out.
RECURSIVE CarryRun(_, _, _, _)
CarryRun(v, i, hi, carry) ==
  IF i > hi THEN <<carry>>
  ELSE <<(v[i] + carry) % ByteBase>> \o CarryRun(v, i + 1, hi, (v[i] + carry) \div ByteBase)

\* All but the last element of a run, and its last element.
Front(c) == SubSeq(c, 1, Len(c) - 1)

Last(c) == c[Len(c)]

RECURSIVE CarryAll(_, _, _)
CarryFrom(v, hi, c) == Front(c) \o CarryAll(v, hi + 1, Last(c))

CarryTo(v, lo, hi, carry) == CarryFrom(v, hi, CarryRun(v, lo, hi, carry))

CarryAll(v, lo, carry) ==
  IF lo > Len(v) THEN <<>> ELSE CarryTo(v, lo, MinI(lo + Chunk - 1, Len(v)), carry)

Reverse(s) == [i \in 1..Len(s) |-> s[Len(s) + 1 - i]]

\* The BigUint whose value is the sum of v[i] * 256^(i-1); the top columns of
\* v leave room for the last carry.
Normalize(v) == from_bytes_be(Reverse(CarryAll(v, 1, 0)))

RECURSIVE FirstDiff(_, _, _, _)
FirstDiff(a, b, lo, hi) ==
  IF lo = hi THEN lo
  ELSE LET mid == (lo + hi) \div 2
       IN IF SubSeq(a, lo, mid) = SubSeq(b, lo, mid)
          THEN FirstDiff(a, b, mid + 1, hi)
          ELSE FirstDiff(a, b, lo, mid)

\* Ord for BigUint: -1, 0, 1.
Cmp(a, b) ==
  IF Len(a) # Len(b) THEN (IF Len(a) < Len(b) THEN -1 ELSE 1)
  ELSE IF a = b THEN 0
  ELSE LET i == FirstDiff(a, b, 1, Len(a))
       IN IF a[i] < b[i] THEN -1 ELSE 1

Lt(a, b) == Cmp(a, b) < 0

Le(a, b) == Cmp(a, b) <= 0

Add(a, b) ==
  Normalize([i \in 1..(MaxI(Len(a), Len(b)) + 1) |-> Dg(a, i - 1) + Dg(b, i - 1)])

\* a - b for a >= b (BigUint subtraction panics otherwise).
Sub(a, b) == Normalize([i \in 1..Len(a) |-> Dg(a, i - 1) - Dg(b, i - 1)])

RECURSIVE SumSeq(_, _, _)
SumSeq(s, lo, hi) ==
  IF lo > hi THEN 0
  ELSE IF lo = hi THEN s[lo]
  ELSE LET mid == (lo + hi) \div 2
       IN SumSeq(s, lo, mid) + SumSeq(s, mid + 1, hi)

\* Column k (0-based) of the schoolbook product.
MulCol(a, b, k) ==
  LET lo == MaxI(0, k - (Len(b) - 1))
      hi == MinI(k, Len(a) - 1)
      terms == [j \in 1..(hi - lo + 1) |-> Dg(a, lo + j - 1) * Dg(b, k - (lo + j - 1))]
  IN SumSeq(terms, 1, hi - lo + 1)

Mul(a, b) ==
  IF a = <<>> \/ b = <<>> THEN <<>>
  ELSE Normalize([i \in 1..(Len(a) + Len(b) + 1) |->
                    IF i <= Len(a) + Len(b) - 1 THEN MulCol(a, b, i - 1) ELSE 0])

\* b * q for a machine integer 0 <= q < 2^22.
MulSmall(b, q) ==
  IF q = 0 \/ b = <<>> THEN <<>>
  ELSE Normalize([i \in 1..(Len(b) + 3) |-> Dg(b, i - 1) * q])

\* The largest q in lo..hi with q * b <= r (lo qualifies).
RECURSIVE QuotDigit(_, _, _, _)
QuotDigit(r, b, lo, hi) ==
  IF lo >= hi THEN lo
  ELSE LET mid == (lo + hi + 1) \div 2
       IN IF Le(MulSmall(b, mid), r)
          THEN QuotDigit(r, b, mid, hi)
          ELSE QuotDigit(r, b, lo, mid - 1)

\* An upper bound, at most 255, of floor(r / b) for b # 0, read off the leading
\* bytes of r and b; a lower bound, at least 0, likewise.
LeadOf(b, k) == ToNat(SubSeq(b, 1, k))

UpperQuot(r, b) ==
  IF Len(r) < Len(b) THEN 0
  ELSE IF Len(r) > Len(b) + 1 THEN ByteBase - 1
  ELSE MinI(ByteBase - 1,
            (LeadOf(r, Len(r) - (Len(b) - MinI(2, Len(b)))) + 1) \div LeadOf(b, MinI(2, Len(b))))

LowerQuot(r, b) ==
  IF Len(r) < Len(b) THEN 0
  ELSE IF Len(r) > Len(b) + 1 THEN ByteBase - 1
  ELSE MinI(ByteBase - 1,
            LeadOf(r, Len(r) - (Len(b) - MinI(2, Len(b)))) \div (LeadOf(b, MinI(2, Len(b))) + 1))

\* floor(r / b) for b <= r < 256 * b.
QuotOf(r, b) == QuotDigit(r, b, MaxI(1, LowerQuot(r, b)), UpperQuot(r, b))

\* Long division of the bytes i..hi of a, the remainder so far being rem: the
\* quotient digits of those positions, then the remainder.
RECURSIVE DivRun(_, _, _, _, _)
DivDigit(a, b, i, hi, cur, q) ==
  <<q>> \o DivRun(a, b, i + 1, hi, IF q = 0 THEN cur ELSE Sub(cur, MulSmall(b, q)))

DivStep(a, b, i, hi, cur) ==
  DivDigit(a, b, i, hi, cur, IF Lt(cur, b) THEN 0 ELSE QuotOf(cur, b))

DivRun(a, b, i, hi, rem) ==
  IF i > hi THEN <<rem>> ELSE DivStep(a, b, i, hi, from_bytes_be(Append(rem, a[i])))

RECURSIVE DivAll(_, _, _, _)
DivFrom(a, b, hi, c) == Front(c) \o DivAll(a, b, hi + 1, Last(c))

DivTo(a, b, lo, hi, rem) == DivFrom(a, b, hi, DivRun(a, b, lo, hi, rem))

DivAll(a, b, lo, rem) ==
  IF lo > Len(a) THEN <<rem>> ELSE DivTo(a, b, lo, MinI(lo + Chunk - 1, Len(a)), rem)

QuotRem(d) == [q |-> from_bytes_be(Front(d)), r |-> Last(d)]

\* Quotient and remainder of a by b # 0.
DivMod(a, b) ==
  IF Lt(a, b) THEN [q |-> <<>>, r |-> a] ELSE QuotRem(DivAll(a, b, 1, <<>>))

Div(a, b) == DivMod(a, b).q

Mod(a, b) == DivMod(a, b).r

\* BigUint::bits: the number of significant bits.
RECURSIVE BitsOfByte(_)
BitsOfByte(b) == IF b = 0 THEN 0 ELSE 1 + BitsOfByte(b \div 2)

bits(x) == IF x = <<>> THEN 0 ELSE 8 * (Len(x) - 1) + BitsOfByte(x[1])

\* BigUint::modpow for a modulus n # 0: base^exp mod n, by squaring over the
\* bits of exp, most significant first.  acc = 0 stays 0.
RECURSIVE PowBits(_, _, _, _, _)
MulMod(a, b, n) == Mod(Mul(a, b), n)

PowBit(sq, base, byte, k, n) ==
  PowBits(IF (byte \div (2 ^ k)) % 2 = 1 THEN MulMod(sq, base, n) ELSE sq, base, byte, k - 1, n)

PowBits(acc, base, byte, k, n) ==
  IF k < 0 \/ acc = <<>> THEN acc ELSE PowBit(MulMod(acc, acc, n), base, byte, k, n)

RECURSIVE PowBytes(_, _, _, _, _)
PowBytes(acc, base, exp, j, n) ==
  IF j > Len(exp) \/ acc = <<>> THEN acc
  ELSE PowBytes(PowBits(acc, base, exp[j], 7, n), base, exp, j + 1, n)

\* The same square-and-multiply on machine integers, for moduli below 2^15.
RECURSIVE PowBitsNat(_, _, _, _, _)
PowBitNat(sq, base, byte, k, n) ==
  PowBitsNat(IF (byte \div (2 ^ k)) % 2 = 1 THEN (sq * base) % n ELSE sq, base, byte, k - 1, n)

PowBitsNat(acc, base, byte, k, n) ==
  IF k < 0 THEN acc ELSE PowBitNat((acc * acc) % n, base, byte, k, n)

RECURSIVE PowBytesNat(_, _, _, _, _)
PowBytesNat(acc, base, exp, j, n) ==
  IF j > Len(exp) THEN acc
  ELSE PowBytesNat(PowBitsNat(acc, base, exp[j], 7, n), base, exp, j + 1, n)

modpow(base, exp, n) ==
  IF n = One THEN Zero
  ELSE IF bits(n) <= 15
  THEN BigFrom(PowBytesNat(1, ToNat(Mod(base, n)), exp, 1, ToNat(n)))
  ELSE PowBytes(One, Mod(base, n), exp, 1, n)

\* x shifted left by k bytes.
Shl(x, k) == IF x = <<>> THEN <<>> ELSE x \o [i \in 1..k |-> 0]

\* (256 r + d)^3 from r, r^2 and r^3, and (256 r + d)^2 from r and r^2.
CubeStep(r, r2, r3, d) ==
  Add(Add(Shl(r3, 3), Shl(MulSmall(r2, 3 * d), 2)),
      Add(Shl(MulSmall(r, 3 * d * d), 1), BigFrom(d * d * d)))

SquareStep(r, r2, d) ==
  Add(Add(Shl(r2, 2), Shl(MulSmall(r, 2 * d), 1)), BigFrom(d * d))

\* The largest d in lo..hi with (256 r + d)^3 <= t (lo qualifies).
RECURSIVE RootDigit(_, _, _, _, _, _)
RootDigit(r, r2, r3, t, lo, hi) ==
  IF lo >= hi THEN lo
  ELSE LET mid == (lo + hi + 1) \div 2
       IN IF Le(CubeStep(r, r2, r3, mid), t)
          THEN RootDigit(r, r2, r3, t, mid, hi)
          ELSE RootDigit(r, r2, r3, t, lo, mid - 1)

\* The next byte d of the root: d * 3 (256 r)^2 <= t - (256 r)^3 bounds it from
\* above, and the bound is tried first.
RootTry(r, r2, r3, t, hi) ==
  IF hi = 0 THEN 0
  ELSE IF Le(CubeStep(r, r2, r3, hi), t) THEN hi
  ELSE RootDigit(r, r2, r3, t, 0, hi - 1)

RootBound(r3, t, den) ==
  IF den = <<>> THEN ByteBase - 1 ELSE UpperQuot(Sub(t, Shl(r3, 3)), den)

RootNext(r, r2, r3, t) ==
  RootTry(r, r2, r3, t, RootBound(r3, t, Shl(MulSmall(r2, 3), 2)))

\* Cube root, one byte of the root for every 3 bytes of x (x padded on the left
\* to a multiple of 3 bytes), steps i..hi; st = <<r, r^2, r^3>> so far.
RECURSIVE RootRun(_, _, _, _)
RootStep(xp, i, hi, st, d) ==
  RootRun(xp, i + 1, hi,
          <<from_bytes_be(Append(st[1], d)),
            SquareStep(st[1], st[2], d),
            CubeStep(st[1], st[2], st[3], d)>>)

RootRun(xp, i, hi, st) ==
  IF i > hi \/ Len(st) # 3 THEN st
  ELSE RootStep(xp, i, hi, st,
                RootNext(st[1], st[2], st[3], from_bytes_be(SubSeq(xp, 1, 3 * i))))

RECURSIVE RootAll(_, _, _)
RootTo(xp, lo, hi, st) == RootAll(xp, hi + 1, RootRun(xp, lo, hi, st))

RootAll(xp, lo, st) ==
  IF 3 * lo > Len(xp) \/ Len(st) # 3 THEN st
  ELSE RootTo(xp, lo, MinI(lo + Chunk - 1, Len(xp) \div 3), st)

\* Roots::cbrt: the truncated cube root.
cbrt(x) ==
  RootAll([i \in 1..((3 - (Len(x) % 3)) % 3) |-> 0] \o x, 1, <<Zero, Zero, Zero>>)[1]

is_even(x) == Dg(x, 0) % 2 = 0

(***************************************************************************)
(* num_bigint::BigInt: a sign and a magnitude; / and % truncate.           *)
(***************************************************************************)

BigInt(neg, mag) == [neg |-> neg /\ mag # <<>>, mag |-> mag]

\* BigInt::from(BigUint), to_bigint.
to_bigint(u) == BigInt(FALSE, u)

IAdd(a, b) ==
  IF a.neg = b.neg THEN BigInt(a.neg, Add(a.mag, b.mag))
  ELSE IF Le(b.mag, a.mag) THEN BigInt(a.neg, Sub(a.mag, b.mag))
  ELSE BigInt(b.neg, Sub(b.mag, a.mag))

ISub(a, b) == IAdd(a, BigInt(~b.neg, b.mag))

IMul(a, b) == BigInt(a.neg # b.neg, Mul(a.mag, b.mag))

IDiv(a, b) == BigInt(a.neg # b.neg, Div(a.mag, b.mag))

IRem(a, b) == BigInt(a.neg, Mod(a.mag, b.mag))

(***************************************************************************)
(* Results: Option<T>, and the panic of an assert!, unwrap or expect.      *)
(***************************************************************************)

Some(v) == [tag |-> "Some", val |-> v]

None == [tag |-> "None"]

Abort == [tag |-> "Abort"]

is_some(r) == r.tag = "Some"

(***************************************************************************)
(* src/src/rsa/util.rs                                                     *)
(***************************************************************************)

\* math_mod: ((x % n) + n) % n as a BigUint.
math_mod_bigint(x, n_bigint) == IRem(IAdd(IRem(x, n_bigint), n_bigint), n_bigint).mag

math_mod(x, n) == math_mod_bigint(x, to_bigint(n))

\* egcd: <<g, x, y>> with a x + b y = g.
RECURSIVE egcd(_, _)
\* egcd_return adding (b / a) * y where the code subtracts it.
egcd_return_added(a, b, r) == <<r[1], IAdd(r[3], IMul(IDiv(b, a), r[2])), r[2]>>

\* (g, x - (b / a) * &y, y) of the (g, y, x) the recursive call returned.
egcd_return(a, b, r) == <<r[1], ISub(r[3], IMul(IDiv(b, a), r[2])), r[2]>>

egcd(a, b) ==
  IF a.mag = <<>> THEN <<b, to_bigint(Zero), to_bigint(One)>>
  ELSE egcd_return(a, b, egcd(IRem(b, a), a))

\* inv_mod: assert!(&a < n) panics for a >= n.
inv_mod_return(n, r) ==
  IF r[1] # to_bigint(One) THEN None ELSE Some(math_mod(r[2], n))

inv_mod(a, n) ==
  IF ~Lt(a, n) THEN Abort ELSE inv_mod_return(n, egcd(to_bigint(a), to_bigint(n)))

(***************************************************************************)
(* src/src/util/mod.rs: math_mod and egcd read as those of rsa/util.rs;    *)
(* inv_mod has no assert.                                                  *)
(***************************************************************************)

util_inv_mod(a, n) == inv_mod_return(n, egcd(to_bigint(a), to_bigint(n)))

(***************************************************************************)
(* src/src/rsa/mod.rs                                                      *)
(***************************************************************************)

\* The default exponent E.
E == <<3>>

\* RSAPublicKey::textbook_process, key = [e, n].
RSAPublicKey_textbook_process(key, message) ==
  IF Lt(key.n, message) THEN None ELSE Some(modpow(message, key.e, key.n))

\* RSAPrivateKey::textbook_process, key = [d, n].
RSAPrivateKey_textbook_process(key, message) ==
  IF Lt(key.n, message) THEN None ELSE Some(modpow(message, key.d, key.n))

len_bits(key) == bits(key.n)

\* len_bits().div_ceil(&8)
len_bytes(key) == (len_bits(key) + 7) \div 8

\* generate_rsa_keypair_from_primes: Some([pub, priv]), None without an inverse
\* of e, Abort where inv_mod panics.
keypair_of(e, n, d) ==
  IF d.tag # "Some" THEN d
  ELSE Some([pub |-> [e |-> e, n |-> n], priv |-> [d |-> d.val, n |-> n]])

\* keypair_from_gcd with Euler's totient: p_1 * q_1 is not divided by the gcd.
keypair_from_gcd_euler_totient(e, p, q, p_1, q_1, gcd_p_1_q_1) ==
  IF gcd_p_1_q_1.neg THEN Abort
  ELSE keypair_of(e, Mul(p, q), inv_mod(e, Mul(p_1, q_1)))

keypair_from_gcd(e, p, q, p_1, q_1, gcd_p_1_q_1) ==
  IF gcd_p_1_q_1.neg THEN Abort
  ELSE keypair_of(e, Mul(p, q), inv_mod(e, Div(Mul(p_1, q_1), gcd_p_1_q_1.mag)))

keypair_from_totients(e, p, q, p_1, q_1) ==
  keypair_from_gcd(e, p, q, p_1, q_1, egcd(to_bigint(p_1), to_bigint(q_1))[1])

generate_rsa_keypair_from_primes(e, p, q) ==
  keypair_from_totients(e, p, q, Sub(p, One), Sub(q, One))

(***************************************************************************)
(* The digest contract consumed by the padding schemes: digest(message) of *)
(* OUTPUT_LENGTH bytes and the ASN1_PREFIX of the algorithm.  A digest is  *)
(* a record [ASN1_PREFIX, OUTPUT_LENGTH]; its value on a message is a      *)
(* checksum of the message bytes.                                          *)
(***************************************************************************)

digest_byte(D, message, i) ==
  (Len(D.ASN1_PREFIX) + 31 * i + Len(message)
     + SumSeq([j \in 1..Len(message) |-> message[j] * (i + j)], 1, Len(message))) % ByteBase

digest(D, message) == [i \in 1..D.OUTPUT_LENGTH |-> digest_byte(D, message, i)]

\* A digest of one byte with a prefix of one byte: the smallest instance.
TinyDigest == [ASN1_PREFIX |-> <<48>>, OUTPUT_LENGTH |-> 1]

\* A digest of two bytes with a prefix of two bytes.
SmallDigest == [ASN1_PREFIX |-> <<48, 4>>, OUTPUT_LENGTH |-> 2]

\* SHA1 and SHA256 of src/src/digest, with the DigestInfo prefixes of PKCS#1.
SHA1 ==
  [ASN1_PREFIX |-> <<48, 33, 48, 9, 6, 5, 43, 14, 3, 2, 26, 5, 0, 4, 20>>,
   OUTPUT_LENGTH |-> 20]

SHA256 ==
  [ASN1_PREFIX |-> <<48, 49, 48, 13, 6, 9, 96, 134, 72, 1, 101, 3, 4, 2, 1, 5, 0, 4, 32>>,
   OUTPUT_LENGTH |-> 32]

(***************************************************************************)
(* src/src/rsa/padding/pkcs1v1_5.rs: signature padding.  unpad_verify      *)
(* answers "true" or "false", or "panic" where an index or a slice leaves  *)
(* the block.                                                              *)
(***************************************************************************)

Verdict(b) == IF b THEN "true" ELSE "false"

\* block[start .. start + Len(bytes)].copy_from_slice(bytes), start 0-based.
copy_from_slice(block, start, bytes) ==
  [i \in 1..Len(block) |->
     IF start < i /\ i <= start + Len(bytes) THEN bytes[i - start] ELSE block[i]]

hash_pad_block(D, block_len, hash) ==
  copy_from_slice(
    copy_from_slice(
      [[[[i \in 1..block_len |-> 255] EXCEPT ![1] = 0] EXCEPT ![2] = 1]
         EXCEPT ![block_len - Len(hash) - Len(D.ASN1_PREFIX)] = 0],
      block_len - Len(hash) - Len(D.ASN1_PREFIX), D.ASN1_PREFIX),
    block_len - Len(hash), hash)

\* hash_pad_of with a floor of 10 in place of 11.
hash_pad_of_floor_10(D, block_len, hash) ==
  IF block_len < Len(hash) + Len(D.ASN1_PREFIX) + 10 THEN None
  ELSE Some(from_bytes_be(hash_pad_block(D, block_len, hash)))

hash_pad_of(D, block_len, hash) ==
  IF block_len < Len(hash) + Len(D.ASN1_PREFIX) + 11 THEN None
  ELSE Some(from_bytes_be(hash_pad_block(D, block_len, hash)))

\* PKCS1v1_5::hash_pad
PKCS1v1_5_hash_pad(D, block_len, message) == hash_pad_of(D, block_len, digest(D, message))

\* BadPKCS1v1_5::hash_pad
BadPKCS1v1_5_hash_pad(D, block_len, message) == PKCS1v1_5_hash_pad(D, block_len, message)

\* PKCS1v1_5::unpad_verify from the separator on, without the floor of 8
\* padding bytes.
unpad_verify_padding_no_floor(D, message, block, block_len, padding_len) ==
  IF padding_len < 0 THEN "false"
  ELSE IF ~(\A i \in 2..(1 + padding_len) : block[i] = 255) THEN "false"
  ELSE IF block[padding_len + 2] # 0 THEN "false"
  ELSE IF SubSeq(block, block_len - D.OUTPUT_LENGTH - Len(D.ASN1_PREFIX) + 1,
                 block_len - D.OUTPUT_LENGTH) # D.ASN1_PREFIX THEN "false"
  ELSE Verdict(SubSeq(block, block_len - D.OUTPUT_LENGTH + 1, block_len) = digest(D, message))

\* PKCS1v1_5::unpad_verify from the separator on; block_len is block.len() and
\* padding_len = block_len - hash_len - prefix_len - 2.
unpad_verify_padding(D, message, block, block_len, padding_len) ==
  IF padding_len < 8 THEN "false"
  ELSE IF ~(\A i \in 2..(1 + padding_len) : block[i] = 255) THEN "false"
  ELSE IF block[padding_len + 2] # 0 THEN "false"
  ELSE IF SubSeq(block, block_len - D.OUTPUT_LENGTH - Len(D.ASN1_PREFIX) + 1,
                 block_len - D.OUTPUT_LENGTH) # D.ASN1_PREFIX THEN "false"
  ELSE Verdict(SubSeq(block, block_len - D.OUTPUT_LENGTH + 1, block_len) = digest(D, message))

unpad_verify_block(D, block_len, message, block) ==
  IF Len(block) + 1 # block_len \/ block[1] # 1 THEN "false"
  ELSE IF Len(block) - D.OUTPUT_LENGTH - Len(D.ASN1_PREFIX) - 1 < 0 THEN "panic"
  ELSE IF block[Len(block) - D.OUTPUT_LENGTH - Len(D.ASN1_PREFIX)] # 0 THEN "false"
  ELSE unpad_verify_padding(D, message, block, Len(block),
                            Len(block) - D.OUTPUT_LENGTH - Len(D.ASN1_PREFIX) - 2)

\* PKCS1v1_5::unpad_verify
PKCS1v1_5_unpad_verify(D, block_len, message, signature) ==
  unpad_verify_block(D, block_len, message, to_bytes_be(signature))

\* The while loop of BadPKCS1v1_5::unpad_verify: the first 0-based index from 1
\* on that is past the block or holds no 0xff.
padding_end_of(block) ==
  CHOOSE e \in 1..Len(block) :
    /\ e = Len(block) \/ block[e + 1] # 255
    /\ \A i \in 1..(e - 1) : block[i + 1] = 255

\* BadPKCS1v1_5::unpad_verify after the separator, requiring the digest to
\* end the block.
bad_unpad_verify_rest_to_end(D, message, block, padding_end) ==
  IF padding_end + Len(D.ASN1_PREFIX) + D.OUTPUT_LENGTH # Len(block) THEN "false"
  ELSE IF SubSeq(block, padding_end + 1, padding_end + Len(D.ASN1_PREFIX)) # D.ASN1_PREFIX
  THEN "false"
  ELSE Verdict(SubSeq(block, padding_end + Len(D.ASN1_PREFIX) + 1,
                      padding_end + Len(D.ASN1_PREFIX) + D.OUTPUT_LENGTH) = digest(D, message))

\* BadPKCS1v1_5::unpad_verify after the separator; padding_end is its 0-based
\* index plus one.
bad_unpad_verify_rest(D, message, block, padding_end) ==
  IF padding_end + Len(D.ASN1_PREFIX) > Len(block) THEN "panic"
  ELSE IF SubSeq(block, padding_end + 1, padding_end + Len(D.ASN1_PREFIX)) # D.ASN1_PREFIX
  THEN "false"
  ELSE IF padding_end + Len(D.ASN1_PREFIX) + D.OUTPUT_LENGTH > Len(block) THEN "panic"
  ELSE Verdict(SubSeq(block, padding_end + Len(D.ASN1_PREFIX) + 1,
                      padding_end + Len(D.ASN1_PREFIX) + D.OUTPUT_LENGTH) = digest(D, message))

bad_unpad_verify_padding(D, message, block, padding_end) ==
  IF padding_end = 1 THEN "false"
  ELSE IF padding_end >= Len(block) THEN "panic"
  ELSE IF block[padding_end + 1] # 0 THEN "false"
  ELSE bad_unpad_verify_rest(D, message, block, padding_end + 1)

bad_unpad_verify_block(D, block_len, message, block) ==
  IF Len(block) + 1 # block_len \/ block[1] # 1 THEN "false"
  ELSE bad_unpad_verify_padding(D, message, block, padding_end_of(block))

\* BadPKCS1v1_5::unpad_verify
BadPKCS1v1_5_unpad_verify(D, block_len, message, signature) ==
  bad_unpad_verify_block(D, block_len, message, to_bytes_be(signature))

\* The padding schemes S of sign and verify.
hash_pad(S, D, block_len, message) ==
  IF S = "BadPKCS1v1_5" THEN BadPKCS1v1_5_hash_pad(D, block_len, message)
  ELSE PKCS1v1_5_hash_pad(D, block_len, message)

unpad_verify(S, D, block_len, message, signature) ==
  IF S = "BadPKCS1v1_5" THEN BadPKCS1v1_5_unpad_verify(D, block_len, message, signature)
  ELSE PKCS1v1_5_unpad_verify(D, block_len, message, signature)

(***************************************************************************)
(* src/src/rsa/mod.rs: sign and verify.                                    *)
(***************************************************************************)

and_then_textbook_process(key, padded) ==
  IF padded.tag # "Some" THEN padded ELSE RSAPrivateKey_textbook_process(key, padded.val)

\* RSAPrivateKey::sign::<S, D>
sign(key, S, D, message) ==
  and_then_textbook_process(key, hash_pad(S, D, len_bytes(key), message))

\* A verify that takes an absent textbook_process result for a valid signature.
verify_decrypted_absent_accepted(key, S, D, message, decrypted_signature) ==
  IF decrypted_signature.tag # "Some" THEN "true"
  ELSE unpad_verify(S, D, len_bytes(key), message, decrypted_signature.val)

verify_decrypted(key, S, D, message, decrypted_signature) ==
  IF decrypted_signature.tag # "Some" THEN "false"
  ELSE unpad_verify(S, D, len_bytes(key), message, decrypted_signature.val)

\* RSAPublicKey::verify::<S, D>
verify(key, S, D, message, signature) ==
  verify_decrypted(key, S, D, message, RSAPublicKey_textbook_process(key, signature))

(***************************************************************************)
(* The attacks of src/src/rsa/mod.rs                                       *)
(***************************************************************************)

\* c_i * m_s_i * inv_mod(m_s_i, n_i).unwrap()
crt_term(c, m_s, inverse) ==
  IF inverse.tag # "Some" THEN Abort ELSE Some(Mul(Mul(c, m_s), inverse.val))

crt_result(t_0, t_1, t_2, n_0_1_2) ==
  IF t_0.tag # "Some" \/ t_1.tag # "Some" \/ t_2.tag # "Some" THEN Abort
  ELSE Some(cbrt(Mod(Add(Add(t_0.val, t_1.val), t_2.val), n_0_1_2)))

crt_of(n_0, n_1, n_2, c_0, c_1, c_2, m_s_0, m_s_1, m_s_2) ==
  crt_result(crt_term(c_0, m_s_0, inv_mod(m_s_0, n_0)),
             crt_term(c_1, m_s_1, inv_mod(m_s_1, n_1)),
             crt_term(c_2, m_s_2, inv_mod(m_s_2, n_2)),
             Mul(Mul(n_0, n_1), n_2))

\* e_3_broadcast_attack(input); input[i] = <<public key, ciphertext>>.
e_3_broadcast_attack(input) ==
  crt_of(input[1][1].n, input[2][1].n, input[3][1].n,
         input[1][2], input[2][2], input[3][2],
         Mul(input[2][1].n, input[3][1].n),
         Mul(input[1][1].n, input[3][1].n),
         Mul(input[1][1].n, input[2][1].n))

\* The last line of unpadded_message_recovery.
recovered_of(almost_recovered_plaintext, inverse, n) ==
  IF almost_recovered_plaintext.tag # "Some" \/ inverse.tag # "Some" THEN Abort
  ELSE Some(Mod(Mul(almost_recovered_plaintext.val, inverse.val), n))

\* The ciphertext unpadded_message_recovery hands to the oracle.
malleated_ciphertext(public_key, s, c) ==
  Mod(Mul(modpow(s, public_key.e, public_key.n), c), public_key.n)

\* unpadded_message_recovery(public_key, s, ciphertext, oracle), given what the
\* oracle answered (Abort when it panicked).
unpadded_message_recovery(public_key, s, almost_recovered_plaintext) ==
  recovered_of(almost_recovered_plaintext, inv_mod(s, public_key.n), public_key.n)

(***************************************************************************)
(* Encryption padding (src/src/rsa/padding/pkcs1v1_5.rs) and the encrypt   *)
(* and decrypt of the keys that tests/set6 calls.                          *)
(***************************************************************************)

\* .filter(|&x| x > 0)
filter_positive(x) == x > 0

\* iter::once(0x02).chain(padding_bytes_iter).chain(iter::once(0x00)).chain(plaintext)
pad_bytes(padding, data) == <<2>> \o padding \o <<0>> \o data

\* assert_eq!(bytes.len(), block_len - 1), then the integer of the bytes.
pad_collected(block_len, bytes) ==
  IF Len(bytes) # block_len - 1 THEN Abort ELSE Some(from_bytes_be(bytes))

\* PKCS1v1_5::pad taking the bytes of thread_rng as they come.
PKCS1v1_5_pad_unfiltered(block_len, data, stream) ==
  IF block_len < Len(data) + 11 THEN None
  ELSE pad_collected(block_len,
                     pad_bytes(SubSeq(stream, 1, block_len - 3 - Len(data)), data))

\* PKCS1v1_5::pad; stream is what thread_rng yields, as far as pad reads it.
PKCS1v1_5_pad(block_len, data, stream) ==
  IF block_len < Len(data) + 11 THEN None
  ELSE pad_collected(block_len,
                     pad_bytes(SubSeq(SelectSeq(stream, filter_positive), 1,
                                      block_len - 3 - Len(data)), data))

\* The position of the last zero of bytes[1..] in place of the first.
position_last_zero(bytes) ==
  IF \A i \in 2..Len(bytes) : bytes[i] # 0 THEN None
  ELSE Some((CHOOSE i \in 2..Len(bytes) :
               bytes[i] = 0 /\ \A j \in (i + 1)..Len(bytes) : bytes[j] # 0) - 2)

\* bytes[1..].iter().position(|&x| x == 0)
position_zero(bytes) ==
  IF \A i \in 2..Len(bytes) : bytes[i] # 0 THEN None
  ELSE Some((CHOOSE i \in 2..Len(bytes) :
               bytes[i] = 0 /\ \A j \in 2..(i - 1) : bytes[j] # 0) - 2)

\* unpad_padding asking for more than 8 bytes of padding.
unpad_padding_above_8(bytes, padding_len) ==
  IF padding_len.tag # "Some" THEN None
  ELSE IF padding_len.val <= 8 THEN None
  ELSE Some(SubSeq(bytes, padding_len.val + 3, Len(bytes)))

\* The rest of unpad: the ? on the position and the floor of 8.
unpad_padding(bytes, padding_len) ==
  IF padding_len.tag # "Some" THEN None
  ELSE IF padding_len.val < 8 THEN None
  ELSE Some(SubSeq(bytes, padding_len.val + 3, Len(bytes)))

unpad_bytes(block_len, bytes) ==
  IF Len(bytes) + 1 # block_len \/ bytes[1] # 2 THEN None
  ELSE unpad_padding(bytes, position_zero(bytes))

\* PKCS1v1_5::unpad
PKCS1v1_5_unpad(block_len, c) == unpad_bytes(block_len, to_bytes_be(c))

and_then_encrypt(key, padded) ==
  IF padded.tag # "Some" THEN padded ELSE RSAPublicKey_textbook_process(key, padded.val)

\* public.encrypt::<PKCS1v1_5>(data): pad, then the textbook transformation.
RSAPublicKey_encrypt(key, data, stream) ==
  and_then_encrypt(key, PKCS1v1_5_pad(len_bytes(key), data, stream))

and_then_unpad(key, decrypted) ==
  IF decrypted.tag # "Some" THEN decrypted ELSE PKCS1v1_5_unpad(len_bytes(key), decrypted.val)

\* private.decrypt::<PKCS1v1_5>(c): the textbook transformation, then unpad.
RSAPrivateKey_decrypt(key, c) ==
  and_then_unpad(key, RSAPrivateKey_textbook_process(key, c))

(***************************************************************************)
(* src/src/rsa/primes.rs                                                   *)
(***************************************************************************)

FIRST_PRIMES_COUNT == 2048

FERMAT_ROUNDS == 5

RABIN_MILLER_K == 128

\* Upper end of the range searched for the first FIRST_PRIMES_COUNT primes.
SieveBound == 18000

SieveRoot == CHOOSE r \in 1..SieveBound : r * r >= SieveBound /\ (r - 1) * (r - 1) < SieveBound

TrialPrimes == {v \in 2..SieveBound : \A d \in 2..MinI(v - 1, SieveRoot) : v % d # 0}

RECURSIVE NthOf(_, _, _, _)
NthOf(S, count, lo, hi) ==
  IF lo >= hi THEN lo
  ELSE LET mid == (lo + hi) \div 2
       IN IF Cardinality({v \in S : v <= mid}) >= count
          THEN NthOf(S, count, lo, mid) ELSE NthOf(S, count, mid + 1, hi)

\* FIRST_PRIMES: 2 and every odd number without a divisor among the primes
\* before it, until FIRST_PRIMES_COUNT primes are collected.
FIRST_PRIMES ==
  LET all == TrialPrimes
      last == NthOf(all, FIRST_PRIMES_COUNT, 2, SieveBound)
  IN {v \in all : v <= last}

\* candidate % prime for a prime of machine size.
RECURSIVE ModSmallRun(_, _, _, _)
ModSmallRun(v, k, i, acc) ==
  IF i > Len(v) THEN acc ELSE ModSmallRun(v, k, i + 1, (acc * ByteBase + v[i]) % k)

ModSmall(v, k) == ModSmallRun(v, k, 1, 0)

first_primes(candidate) == \A prime \in FIRST_PRIMES : ModSmall(candidate, prime) # 0

\* thread_rng: draw number k of the generator state `seed`, in [lo, hi).
rng(seed, k, lo, hi) == Add(lo, Mod(BigFrom(seed * (k + 1)), Sub(hi, lo)))

\* fermat: FERMAT_ROUNDS random bases below the candidate.
fermat_round(random, candidate) == modpow(random, Sub(candidate, One), candidate) = One

fermat(candidate, seed) ==
  \A k \in 1..FERMAT_ROUNDS : fermat_round(rng(seed, k, Zero, candidate), candidate)

\* rewrite: d = 2^s * odd, as <<s, odd>>.
RECURSIVE rewrite(_)
rewrite_count(r) == <<r[1] + 1, r[2]>>

rewrite(d) ==
  IF is_even(d) /\ d # Zero THEN rewrite_count(rewrite(Div(d, <<2>>))) ELSE <<0, d>>

\* The squaring loop of one Rabin-Miller round: TRUE when it breaks out.
RECURSIVE SquareLoop(_, _, _, _)
SquareTest(v2, i, s, candidate_minus_one, candidate) ==
  IF v2 = candidate_minus_one THEN TRUE
  ELSE IF v2 = One \/ i = s - 1 THEN FALSE
  ELSE SquareLoop(v2, i + 1, s, candidate)

SquareLoop(v, i, s, candidate) ==
  SquareTest(modpow(v, <<2>>, candidate), i, s, Sub(candidate, One), candidate)

\* One round without the test for v = candidate - 1 before the squarings.
rabin_miller_basis_one(v, s, candidate_minus_one, candidate) ==
  v = One \/ SquareLoop(v, 0, s, candidate)

\* One round: the basis passes.
rabin_miller_basis(v, s, candidate_minus_one, candidate) ==
  v = One \/ v = candidate_minus_one \/ SquareLoop(v, 0, s, candidate)

rabin_miller_rounds(candidate, seed, candidate_minus_one, sd) ==
  \A k \in 1..(RABIN_MILLER_K \div 2) :
    rabin_miller_basis(modpow(rng(seed, FERMAT_ROUNDS + k, <<2>>, candidate), sd[2], candidate),
                       sd[1], candidate_minus_one, candidate)

rabin_miller(candidate, seed) ==
  IF candidate = <<2>> THEN TRUE
  ELSE IF is_even(candidate) THEN FALSE
  ELSE rabin_miller_rounds(candidate, seed, Sub(candidate, One), rewrite(Sub(candidate, One)))

\* 2^k
pow2(k) == <<2 ^ (k % 8)>> \o [i \in 1..(k \div 8) |-> 0]

\* set_bit(0, true)
set_bit0(v) == IF is_even(v) THEN Add(v, One) ELSE v

\* One pass of the loop of gen_prime: the candidate drawn, and whether it is
\* returned.
gen_prime_candidate(bits_, seed) ==
  set_bit0(rng(seed, 0, Add(pow2(bits_ - 1), One), Sub(pow2(bits_), One)))

gen_prime_accepts(candidate, seed) ==
  first_primes(candidate) /\ fermat(candidate, seed) /\ rabin_miller(candidate, seed)

\* One pass of the loop of gen_prime: Some(candidate) when it returns.
gen_prime_of(candidate, seed) ==
  IF gen_prime_accepts(candidate, seed) THEN Some(candidate) ELSE None

\* One pass of gen_rsa_prime without the test of candidate % e.
gen_rsa_prime_any(candidate, e, seed) == gen_prime_of(candidate, seed)

\* One pass of the loop of gen_rsa_prime: Some(candidate) when it returns.
gen_rsa_prime_of(candidate, e, seed) ==
  IF ~gen_prime_accepts(candidate, seed) THEN None
  ELSE IF Mod(candidate, e) = One THEN None
  ELSE Some(candidate)

gen_rsa_prime(bits_, e, seed) == gen_rsa_prime_of(gen_prime_candidate(bits_, seed), e, seed)

(***************************************************************************)
(* src/tests/set6/challenge47_48_pkcs1_5_padding_oracle.rs                 *)
(***************************************************************************)

div_ceil_of(dm) == IF dm.r = Zero THEN dm.q ELSE Add(dm.q, One)

\* Integer::div_ceil
div_ceil(a, b) == div_ceil_of(DivMod(a, b))

\* Integer::div_floor
div_floor(a, b) == Div(a, b)

BigMax(a, b) == IF Lt(a, b) THEN b ELSE a

BigMin(a, b) == IF Lt(b, a) THEN b ELSE a

\* range(lo, hi) and range_inclusive(lo, hi) as sets.
BigRangeInclusive(lo, hi) ==
  IF Lt(hi, lo) THEN {} ELSE {Add(lo, BigFrom(j)) : j \in 0..ToNat(Sub(hi, lo))}

\* Adversary::oracle
Adversary_oracle(keys, c) == RSAPrivateKey_decrypt(keys.priv, c).tag = "Some"

\* The closure oracle of crack: c * s_i^e mod n handed to the adversary.
crack_oracle(keys, c, s_i) ==
  Adversary_oracle(keys, Mod(Mul(c, modpow(s_i, keys.pub.e, keys.pub.n)), keys.pub.n))

\* upper_b = 2^(8 * (len_bytes - 2)) and its multiples.
upper_b(key) == pow2(8 * (len_bytes(key) - 2))

two_b(key) == Mul(<<2>>, upper_b(key))

three_b(key) == Mul(<<3>>, upper_b(key))

\* Step 2.c: the window of s for one r_i, as <<s_start, s_end>>.
crack_window(key, ab, r_i) ==
  <<div_ceil(Add(two_b(key), Mul(r_i, key.n)), ab[2]),
    div_ceil(Add(three_b(key), Mul(r_i, key.n)), ab[1])>>

\* Step 2.c: the first r_i from r on whose window is not empty, and the first
\* s of that window, as [r, s].
RECURSIVE crack_first_window(_, _, _)
crack_window_or_next(key, ab, r_i, w) ==
  IF Lt(w[1], w[2]) THEN [r |-> r_i, s |-> w[1]]
  ELSE crack_first_window(key, ab, Add(r_i, One))

crack_first_window(key, ab, r_i) ==
  crack_window_or_next(key, ab, r_i, crack_window(key, ab, r_i))

\* Step 2.c: what is queried after s of the window of r_i.
crack_after(key, ab, r_i, s_next, w) ==
  IF Lt(s_next, w[2]) THEN [r |-> r_i, s |-> s_next]
  ELSE crack_first_window(key, ab, Add(r_i, One))

\* Step 2: the first value queried in iteration i.
crack_search_from(key, i, m_prev, s_prev) ==
  IF i = 1 THEN [r |-> Zero, s |-> div_ceil(key.n, three_b(key))]
  ELSE IF Len(m_prev) >= 2 THEN [r |-> Zero, s |-> Add(s_prev, One)]
  ELSE crack_first_window(key, m_prev[1],
         Mul(<<2>>, div_ceil(Sub(Mul(m_prev[1][2], s_prev), two_b(key)), key.n)))

\* Step 2: the value queried after s_i was refused.
crack_search_next(key, i, m_prev, r_i, s_i) ==
  IF i = 1 \/ Len(m_prev) >= 2 THEN [r |-> Zero, s |-> Add(s_i, One)]
  ELSE crack_after(key, m_prev[1], r_i, Add(s_i, One), crack_window(key, m_prev[1], r_i))

\* Step 3 rounding the lower bound down.
crack_interval_floor(key, ab, s_i, r) ==
  <<BigMax(ab[1], div_floor(Add(two_b(key), Mul(r, key.n)), s_i)),
    BigMin(ab[2], div_floor(Add(Sub(three_b(key), One), Mul(r, key.n)), s_i))>>

\* Step 3: the interval that one r leaves of <<a, b>>.
crack_interval(key, ab, s_i, r) ==
  <<BigMax(ab[1], div_ceil(Add(two_b(key), Mul(r, key.n)), s_i)),
    BigMin(ab[2], div_floor(Add(Sub(three_b(key), One), Mul(r, key.n)), s_i))>>

\* Step 3 with the first r taken from 2B in place of 3B.
crack_intervals_from_2b(key, ab, s_i) ==
  {crack_interval(key, ab, s_i, r) :
     r \in BigRangeInclusive(
              div_ceil(Add(Sub(Mul(ab[1], s_i), two_b(key)), One), key.n),
              div_floor(Sub(Mul(ab[2], s_i), two_b(key)), key.n))}

\* Step 3: the intervals that <<a, b>> leaves, one for every r.
crack_intervals_of(key, ab, s_i) ==
  {crack_interval(key, ab, s_i, r) :
     r \in BigRangeInclusive(
              div_ceil(Add(Sub(Mul(ab[1], s_i), three_b(key)), One), key.n),
              div_floor(Sub(Mul(ab[2], s_i), two_b(key)), key.n))}

\* The order of tuples of two BigUint.
IntervalLe(x, y) == Lt(x[1], y[1]) \/ (x[1] = y[1] /\ Le(x[2], y[2]))

\* m_i.sort(); m_i.dedup()
RECURSIVE sort_dedup(_)
sort_dedup_from(S, least) == <<least>> \o sort_dedup(S \ {least})

sort_dedup(S) ==
  IF S = {} THEN <<>>
  ELSE sort_dedup_from(S, CHOOSE x \in S : \A y \in S : IntervalLe(x, y))

\* Step 3: the new sorted list of intervals.
crack_narrow(key, m_prev, s_i) ==
  sort_dedup(UNION {crack_intervals_of(key, m_prev[j], s_i) : j \in 1..Len(m_prev)})

(***************************************************************************)
(* State: the keypair of the program, one textbook transformation and one  *)
(* signature in progress.                                                  *)
(***************************************************************************)

VARIABLES
  pc,          \* the step the program is at
  keypair,     \* result of the key generation: None before it
  primes,      \* the primes <<p, q>> the keypair was built from
  keygen,      \* [e, p, q]: a call of generate_rsa_keypair_from_primes
  arith,       \* [f, a, b, out]: a call of inv_mod (b is n) or of egcd
  primality,   \* [f, candidate, k, basis, out]: a call of fermat or rabin_miller
  generated,   \* [f, bits, e, candidate, seed, out]: a call of gen_prime or gen_rsa_prime
  message,     \* the plaintext m handed to the public key
  ciphertext,  \* public.textbook_process(m)
  plaintext,   \* private.textbook_process(ciphertext)
  signed,      \* [D, message]: the digest and the message that were signed
  signature,   \* private.sign::<PKCS1v1_5, D>(message)
  presented,   \* the signature value last handed to verify
  verdict,     \* public.verify of the signature as sign returned it
  tampered,    \* public.verify of a signature with one byte changed
  unpad_call,  \* [S, D, block_len, message, signature]: a call of unpad_verify
  accepted,    \* what that call answered
  padded_hash, \* [S, D, block_len, message, out]: a call of hash_pad
  pad_call,    \* [block_len, plaintext, stream, padded, x, unpadded]: pad and unpad
  crack,       \* the locals of crack: the Bleichenbacher attack in progress
  parity,      \* the locals of the parity-oracle crack
  broadcast,   \* a call of e_3_broadcast_attack: moduli, plaintext, result
  recovery,    \* a call of unpadded_message_recovery: s, oracle queries, result
  forgery,     \* forge_signature and the verify of what it returned
  server       \* adversary::Server of challenge41: its cache

keyVars == <<keypair, primes, keygen, arith, primality, generated>>

textVars == <<message, ciphertext, plaintext>>

sigVars == <<signed, signature, presented, verdict, tampered>>

padVars == <<unpad_call, accepted, padded_hash, pad_call>>

crackVars == <<crack>>

attackVars == <<parity, broadcast, recovery, forgery, server>>

vars == <<pc, keyVars, textVars, sigVars, padVars, crackVars, attackVars>>

\* Largest small plaintext tried.
MaxMessage == 30

Exponents == {E, <<5>>}

PrimePool == {<<5>>, <<7>>, <<11>>, <<17>>, <<23>>}

\* Key sizes handed to generate_rsa_keypair.
KeyBits == {30}

\* Generator states of thread_rng.
Seeds == {0, 27, 1495, 1505, 1506, 1517}

\* Primes p = 2 mod 3 of 7 bytes (their products have 13 bytes), and two small.
SigningPrimePool ==
  {<<8, 0, 0, 0, 0, 0, 21>>, <<8, 0, 0, 0, 0, 0, 81>>, <<11>>, <<23>>}

Digests == {TinyDigest, SmallDigest}

\* The messages signed.
SignMessages == {<<>>, <<72, 105>>}

\* What a tampered byte differs by.
TamperDeltas == {1, 2, 127, 128, 255}

\* Plaintexts tried under a modulus n built from <<p, q>>.
Messages(n, pq) ==
  {BigFrom(k) : k \in 0..MaxMessage} \cup {pq[1], pq[2], Sub(n, One), n, Add(n, One)}

\* No call of pad or unpad yet.
NoPadCall ==
  [block_len |-> 0, plaintext |-> <<>>, stream |-> <<>>, padded |-> None,
   x |-> Zero, unpadded |-> None]

\* The locals of crack before it runs.
NoCrack ==
  [data |-> <<>>, c |-> None, s_prev |-> One, m_prev |-> <<>>, i |-> 0,
   r |-> Zero, s |-> Zero, calls |-> 0, out |-> None]

\* No call of fermat or rabin_miller yet.
NoPrimality ==
  [f |-> "none", candidate |-> Zero, k |-> 0, basis |-> Zero, out |-> "none"]

\* No call of gen_prime or gen_rsa_prime yet.
NoGenerated ==
  [f |-> "none", bits |-> 0, e |-> Zero, candidate |-> Zero, seed |-> 0, out |-> None]

Init ==
  /\ pc = "start"
  /\ keypair = None
  /\ primes = <<>>
  /\ keygen = [e |-> Zero, p |-> Zero, q |-> Zero]
  /\ arith = [f |-> "none", a |-> Zero, b |-> Zero, out |-> None]
  /\ primality = NoPrimality
  /\ generated = NoGenerated
  /\ message = Zero
  /\ ciphertext = None
  /\ plaintext = None
  /\ signed = [D |-> TinyDigest, message |-> <<>>]
  /\ signature = None
  /\ presented = Zero
  /\ verdict = "none"
  /\ tampered = "none"
  /\ unpad_call = [S |-> "PKCS1v1_5", D |-> TinyDigest, block_len |-> 0,
                   message |-> <<>>, signature |-> Zero]
  /\ accepted = "none"
  /\ padded_hash = [S |-> "PKCS1v1_5", D |-> TinyDigest, block_len |-> 0,
                    message |-> <<>>, out |-> None]
  /\ pad_call = NoPadCall
  /\ crack = NoCrack
  /\ parity = [low_bound |-> Zero, high_bound |-> Zero, calls |-> 0]
  /\ broadcast = [n |-> <<>>, m |-> Zero, out |-> None]
  /\ recovery = [s |-> Zero, asked |-> <<>>, out |-> None]
  /\ server = [cache |-> {}]
  /\ forgery = [D |-> TinyDigest, message |-> <<>>, f |-> None, decrypted |-> None,
                verdict |-> "none"]

\* The outcome of a key generation: a keypair, a retry or a panic.
Keyed(result, p, q) ==
  /\ keypair' = result
  /\ primes' = IF result.tag = "Some" THEN <<p, q>> ELSE <<>>
  /\ pc' = IF result.tag = "Some" THEN "keyed"
           ELSE IF result.tag = "Abort" THEN "aborted" ELSE "start"
  /\ UNCHANGED <<keygen, arith, primality, generated, textVars, sigVars, padVars, crackVars, attackVars>>

\* The keypair of two primes that gen_rsa_prime returned.
KeyedFrom(e, p, q) ==
  /\ p.tag = "Some"
  /\ q.tag = "Some"
  /\ \E result \in {generate_rsa_keypair_from_primes(e, p.val, q.val)} :
       Keyed(result, p.val, q.val)

\* generate_rsa_keypair_from_primes(e, p, q)
GenerateKeypairFromPrimes ==
  /\ pc = "start"
  /\ \E e \in Exponents, p \in PrimePool, q \in PrimePool :
       \E result \in {generate_rsa_keypair_from_primes(e, p, q)} : Keyed(result, p, q)

\* generate_rsa_keypair_from_primes(E, p, q) with primes of a size to sign with.
GenerateSigningKeypair ==
  /\ pc = "start"
  /\ \E p \in SigningPrimePool, q \in SigningPrimePool :
       \E result \in {generate_rsa_keypair_from_primes(E, p, q)} : Keyed(result, p, q)

\* One pass of the loop of generate_rsa_keypair(bits, e), with the draws on
\* which both gen_rsa_prime calls return.
GenerateKeypair ==
  /\ pc = "start"
  /\ \E b \in KeyBits, e \in Exponents, sp \in Seeds, sq \in Seeds :
       \E p \in {gen_rsa_prime(b \div 2, e, sp)}, q \in {gen_rsa_prime(b \div 2, e, sq)} :
         KeyedFrom(e, p, q)

\* public.textbook_process(m)
Encrypt ==
  /\ pc = "keyed"
  /\ \E m \in Messages(keypair.val.pub.n, primes) :
       /\ message' = m
       /\ ciphertext' = RSAPublicKey_textbook_process(keypair.val.pub, m)
       /\ pc' = "encrypted"
  /\ UNCHANGED <<keyVars, plaintext, sigVars, padVars, crackVars, attackVars>>

\* private.textbook_process(c)
Decrypt ==
  /\ pc = "encrypted"
  /\ ciphertext.tag = "Some"
  /\ plaintext' = RSAPrivateKey_textbook_process(keypair.val.priv, ciphertext.val)
  /\ pc' = "decrypted"
  /\ UNCHANGED <<keyVars, message, ciphertext, sigVars, padVars, crackVars, attackVars>>

NextKeys == GenerateKeypairFromPrimes \/ GenerateKeypair \/ Encrypt \/ Decrypt

SpecKeys == Init /\ [][NextKeys]_vars

\* C1: for every keypair of generate_rsa_keypair or of a successful
\* generate_rsa_keypair_from_primes and every plaintext m < n, decrypting the
\* encryption of m gives Some(m).
C1_RoundTrip ==
  (pc = "decrypted" /\ Lt(message, keypair.val.pub.n)) => plaintext = Some(message)

(***************************************************************************)
(* Signing and verifying with PKCS1v1_5.                                   *)
(***************************************************************************)

\* private.sign::<PKCS1v1_5, D>(message)
Sign ==
  /\ pc = "keyed"
  /\ \E D \in Digests, m \in SignMessages :
       /\ signed' = [D |-> D, message |-> m]
       /\ signature' = sign(keypair.val.priv, "PKCS1v1_5", D, m)
  /\ pc' = "signed"
  /\ UNCHANGED <<keyVars, textVars, presented, verdict, tampered, padVars, crackVars, attackVars>>

\* public.verify::<PKCS1v1_5, D>(message, signature)
Verify ==
  /\ pc = "signed"
  /\ signature.tag = "Some"
  /\ presented' = signature.val
  /\ verdict' = verify(keypair.val.pub, "PKCS1v1_5", signed.D, signed.message, signature.val)
  /\ pc' = "verified"
  /\ UNCHANGED <<keyVars, textVars, signed, signature, tampered, padVars, crackVars, attackVars>>

\* The signature as a string of k bytes.
signature_bytes(sig, k) == [i \in 1..(k - Len(sig)) |-> 0] \o sig

\* public.verify of the signature with byte i changed by delta.
VerifyTampered ==
  /\ pc = "verified"
  /\ \E i \in 1..len_bytes(keypair.val.pub), delta \in TamperDeltas :
       LET bytes == signature_bytes(signature.val, len_bytes(keypair.val.pub))
       IN /\ presented' = from_bytes_be([bytes EXCEPT ![i] = (bytes[i] + delta) % ByteBase])
          /\ tampered' = verify(keypair.val.pub, "PKCS1v1_5", signed.D, signed.message, presented')
  /\ pc' = "tampered"
  /\ UNCHANGED <<keyVars, textVars, signed, signature, verdict, padVars, crackVars, attackVars>>

NextSign == GenerateSigningKeypair \/ Sign \/ Verify \/ VerifyTampered

SpecSign == Init /\ [][NextSign]_vars

\* C2: with a modulus of at least prefix_len + digest_len + 11 bytes, sign
\* returns Some(sig) and verify(message, sig) is true.
C2_SignVerify ==
  (pc \in {"signed", "verified", "tampered"}
     /\ len_bytes(keypair.val.pub) >= Len(signed.D.ASN1_PREFIX) + signed.D.OUTPUT_LENGTH + 11)
  => /\ signature.tag = "Some"
     /\ pc \in {"verified", "tampered"} => verdict = "true"

\* C3: when the signature sign returned verifies, the signature with any one
\* byte changed, values of n and above included, does not.
C3_TamperRejected ==
  (pc = "tampered" /\ verdict = "true") => tampered = "false"

\* A valid signature was tampered with into a value above the modulus.
C3_Witness ==
  /\ pc = "tampered"
  /\ verdict = "true"
  /\ tampered = "false"
  /\ Lt(keypair.val.pub.n, presented)

(***************************************************************************)
(* The signature padding on its own: unpad_verify of both schemes on       *)
(* blocks around the layout 01 FF.. 00 prefix digest.                      *)
(***************************************************************************)

\* Largest block length tried.
MaxBlockLen == 16

\* Longest run of 0xff and longest tail after the digest in the blocks tried.
MaxPadding == 10

MaxTail == 2

Schemes == {"PKCS1v1_5", "BadPKCS1v1_5"}

\* The bytes 01, 0xff j times, 00, ASN1_PREFIX, digest(message), tail.
Layout(D, m, j, tail) ==
  <<1>> \o [i \in 1..j |-> 255] \o <<0>> \o D.ASN1_PREFIX \o digest(D, m) \o tail

Tails(t) == {[i \in 1..t |-> 0], [i \in 1..t |-> 255], [i \in 1..t |-> i]}

\* Every change of one byte of b by a delta of TamperDeltas.
OneByteChanged(b) ==
  {[b EXCEPT ![i] = (b[i] + delta) % ByteBase] : i \in 1..Len(b), delta \in TamperDeltas}

\* The blocks handed to unpad_verify: the layout with every padding length
\* and tail, the valid layouts with one byte changed, and short blocks.
Blocks(D, m) ==
  {Layout(D, m, j, tail) : j \in 0..MaxPadding, tail \in UNION {Tails(t) : t \in 0..MaxTail}}
    \cup UNION {OneByteChanged(Layout(D, m, j, <<>>)) : j \in 8..MaxPadding}
    \cup {<<0>>, <<1>>, <<1, 255>>, <<1, 255, 255, 255>>, <<1, 0>>, <<2, 255, 0>>}

\* S::unpad_verify::<D>(block_len, message, signature)
UnpadVerify ==
  /\ pc = "start"
  /\ \E S \in Schemes, D \in Digests, block_len \in 0..MaxBlockLen, m \in SignMessages :
       \E b \in Blocks(D, m) :
         /\ unpad_call' = [S |-> S, D |-> D, block_len |-> block_len, message |-> m,
                           signature |-> from_bytes_be(b)]
         /\ accepted' = unpad_verify(S, D, block_len, m, from_bytes_be(b))
  /\ pc' = "unpadded"
  /\ UNCHANGED <<keyVars, textVars, sigVars, padded_hash, pad_call, crackVars, attackVars>>

NextPad == UnpadVerify

SpecPad == Init /\ [][NextPad]_vars

\* The padding length k of the one block hash_pad builds for block_len.
PaddingFor(call) ==
  call.block_len - Len(call.D.ASN1_PREFIX) - call.D.OUTPUT_LENGTH - 3

\* The bytes of the signature of the call are 01, 0xff k times, 00, prefix, digest.
IsLayout(call, k) ==
  k >= 0 /\ to_bytes_be(call.signature) = Layout(call.D, call.message, k, <<>>)

\* C4: PKCS1v1_5::unpad_verify is true exactly for the block of block_len - 1
\* bytes 01, 0xff k times (k = block_len - prefix_len - digest_len - 3 >= 8),
\* 00, prefix, digest, that is exactly when hash_pad(block_len, message) is
\* Some(s); where such a block exists every other block is answered false, and
\* so is the layout with fewer than 8 padding bytes.
C4_AcceptsExactlyOne ==
  (pc = "unpadded" /\ unpad_call.S = "PKCS1v1_5") =>
    /\ accepted = "true" <=> (PaddingFor(unpad_call) >= 8 /\ IsLayout(unpad_call, PaddingFor(unpad_call)))
    /\ accepted = "true" <=>
         PKCS1v1_5_hash_pad(unpad_call.D, unpad_call.block_len, unpad_call.message)
           = Some(unpad_call.signature)
    /\ (PaddingFor(unpad_call) >= 8 /\ ~IsLayout(unpad_call, PaddingFor(unpad_call)))
         => accepted = "false"
    /\ (PaddingFor(unpad_call) < 8 /\ IsLayout(unpad_call, PaddingFor(unpad_call)))
         => accepted = "false"

\* The block of exactly 8 padding bytes is accepted.
C4_Witness ==
  /\ pc = "unpadded"
  /\ unpad_call.S = "PKCS1v1_5"
  /\ accepted = "true"
  /\ PaddingFor(unpad_call) = 8

\* C10: BadPKCS1v1_5::unpad_verify is true for every block of block_len - 1
\* bytes 01, one or more 0xff, 00, prefix, digest, whatever follows the digest.
C10_TrailingBytesIgnored ==
  (pc = "unpadded" /\ unpad_call.S = "BadPKCS1v1_5") =>
    \A j \in 1..MaxPadding, t \in 0..MaxTail :
      (/\ Len(to_bytes_be(unpad_call.signature)) + 1 = unpad_call.block_len
       /\ to_bytes_be(unpad_call.signature)
            \in {Layout(unpad_call.D, unpad_call.message, j, tail) : tail \in Tails(t)})
      => accepted = "true"

\* One 0xff byte of padding and bytes after the digest: accepted.
C10_Witness ==
  /\ pc = "unpadded"
  /\ unpad_call.S = "BadPKCS1v1_5"
  /\ accepted = "true"
  /\ to_bytes_be(unpad_call.signature)
       = Layout(unpad_call.D, unpad_call.message, 1, <<255, 255>>)

(***************************************************************************)
(* The Bleichenbacher attack of tests/set6: crack, one oracle call a step. *)
(***************************************************************************)

\* Oracle calls after which a run of crack is no longer followed.
MaxOracleCalls == 12

\* Adversary::PLAINTEXT
CrackPlaintexts == {<<>>, <<72, 105>>}

\* What thread_rng yields to pad behind the filter x > 0.
PaddingStreams ==
  {<<255, 221, 241, 14, 133, 251, 76, 219, 31, 209, 7, 7, 7, 7, 7, 7>>,
   <<255, 255, 255, 255, 255, 255, 255, 255, 255, 255, 255, 255, 255, 255, 255, 255>>}

\* crack up to the loop: the ciphertext (unwrap), Step 1 with s_0 = 1 and the
\* assert that the oracle accepts it.
CrackBegun(data, c) ==
  IF c.tag # "Some" THEN
    /\ pc' = "crack_aborted"
    /\ crack' = [NoCrack EXCEPT !.data = data, !.out = Abort]
  ELSE IF ~crack_oracle(keypair.val, c.val, One) THEN
    /\ pc' = "crack_aborted"
    /\ crack' = [NoCrack EXCEPT !.data = data, !.c = c, !.calls = 1, !.out = Abort]
  ELSE
    /\ pc' = "searching"
    /\ crack' = [data |-> data, c |-> c, s_prev |-> One,
                 m_prev |-> <<<<two_b(keypair.val.pub),
                                Sub(three_b(keypair.val.pub), One)>>>>,
                 i |-> 1, r |-> Zero,
                 s |-> div_ceil(keypair.val.pub.n, three_b(keypair.val.pub)),
                 calls |-> 1, out |-> None]

CrackStart ==
  /\ pc = "keyed"
  /\ \E data \in CrackPlaintexts, stream \in PaddingStreams :
       \E c \in {RSAPublicKey_encrypt(keypair.val.pub, data, stream)} : CrackBegun(data, c)
  /\ UNCHANGED <<keyVars, textVars, sigVars, padVars, attackVars>>

\* Step 2: one call of the oracle, at crack.s.
CrackSearched(next) ==
  crack' = [crack EXCEPT !.calls = @ + 1, !.r = next.r, !.s = next.s]

CrackSearch ==
  /\ pc = "searching"
  /\ crack.calls < MaxOracleCalls
  /\ IF crack_oracle(keypair.val, crack.c.val, crack.s)
     THEN /\ pc' = "narrowing"
          /\ crack' = [crack EXCEPT !.calls = @ + 1]
     ELSE /\ pc' = "searching"
          /\ \E next \in {crack_search_next(keypair.val.pub, crack.i, crack.m_prev,
                                              crack.r, crack.s)} : CrackSearched(next)
  /\ UNCHANGED <<keyVars, textVars, sigVars, padVars, attackVars>>

\* Steps 3 and 4: the new intervals, and either the plaintext or the next
\* iteration.
CrackContinued(m_i, from) ==
  crack' = [crack EXCEPT !.s_prev = crack.s, !.m_prev = m_i, !.i = @ + 1,
                         !.r = from.r, !.s = from.s]

CrackNarrowed(m_i) ==
  IF m_i = <<>> THEN
    /\ pc' = "crack_aborted"
    /\ crack' = [crack EXCEPT !.m_prev = m_i, !.out = Abort]
  ELSE IF Len(m_i) = 1 /\ m_i[1][1] = m_i[1][2] THEN
    /\ pc' = IF unpad_bytes(len_bytes(keypair.val.pub), to_bytes_be(m_i[1][1])).tag = "Some"
             THEN "cracked" ELSE "crack_aborted"
    /\ crack' = [crack EXCEPT
                   !.m_prev = m_i,
                   !.out = IF PKCS1v1_5_unpad(len_bytes(keypair.val.pub), m_i[1][1]).tag = "Some"
                           THEN PKCS1v1_5_unpad(len_bytes(keypair.val.pub), m_i[1][1])
                           ELSE Abort]
  ELSE
    /\ pc' = "searching"
    /\ \E from \in {crack_search_from(keypair.val.pub, crack.i + 1, m_i, crack.s)} :
         CrackContinued(m_i, from)

CrackNarrow ==
  /\ pc = "narrowing"
  /\ \E m_i \in {crack_narrow(keypair.val.pub, crack.m_prev, crack.s)} : CrackNarrowed(m_i)
  /\ UNCHANGED <<keyVars, textVars, sigVars, padVars, attackVars>>

NextCrack == GenerateSigningKeypair \/ CrackStart \/ CrackSearch \/ CrackNarrow

SpecCrack == Init /\ [][NextCrack]_vars

\* C5: for every keypair and every message that pad and the public key turned
\* into a ciphertext, crack does not abort and what it returns is the message.
C5_AttackRecovers ==
  (pc \in {"searching", "narrowing", "cracked", "crack_aborted"} /\ crack.c.tag = "Some") =>
    /\ pc # "crack_aborted"
    /\ pc = "cracked" => crack.out = Some(crack.data)

(***************************************************************************)
(* The parity-oracle attack of tests/set6/challenge46_rsa_parity_oracle.rs *)
(***************************************************************************)

\* adversary::oracle
parity_oracle_of(decrypted) ==
  IF decrypted.tag # "Some" THEN decrypted ELSE Some(is_even(decrypted.val))

parity_oracle(key, c) == parity_oracle_of(RSAPrivateKey_textbook_process(key, c))

\* crack up to the loop: the ciphertext of the plaintext (unwrap) and the
\* bounds 0 and n.
ParityBegun(m, c) ==
  /\ message' = m
  /\ ciphertext' = c
  /\ pc' = IF c.tag = "Some" THEN "halving" ELSE "parity_aborted"
  /\ parity' = [low_bound |-> Zero, high_bound |-> keypair.val.pub.n, calls |-> 0]

ParityStart ==
  /\ pc = "keyed"
  /\ \E m \in Messages(keypair.val.pub.n, primes) :
       \E c \in {RSAPublicKey_textbook_process(keypair.val.pub, m)} : ParityBegun(m, c)
  /\ UNCHANGED <<keyVars, plaintext, sigVars, padVars, crackVars, broadcast, recovery, forgery, server>>

\* One pass of the loop: the doubled ciphertext, the oracle (unwrap) and the
\* bound that moves by half_bound.
ParityHalved(c, half_bound, is_even_) ==
  /\ ciphertext' = Some(c)
  /\ pc' = IF is_even_.tag = "Some" THEN "halving" ELSE "parity_aborted"
  /\ parity' = IF is_even_.tag # "Some" THEN [parity EXCEPT !.calls = @ + 1]
               ELSE IF is_even_.val
               THEN [parity EXCEPT !.calls = @ + 1, !.high_bound = Sub(@, half_bound)]
               ELSE [parity EXCEPT !.calls = @ + 1, !.low_bound = Add(@, half_bound)]

ParityDoubled(c) ==
  \E is_even_ \in {parity_oracle(keypair.val.priv, c)} :
    ParityHalved(c, Div(Sub(parity.high_bound, parity.low_bound), <<2>>), is_even_)

ParityStep ==
  /\ pc = "halving"
  /\ Lt(One, Sub(parity.high_bound, parity.low_bound))
  /\ \E c \in {Mod(Mul(ciphertext.val,
                         modpow(<<2>>, keypair.val.pub.e, keypair.val.pub.n)),
                     keypair.val.pub.n)} : ParityDoubled(c)
  /\ UNCHANGED <<keyVars, message, plaintext, sigVars, padVars, crackVars,
                 broadcast, recovery, forgery, server>>

\* The loop is left: high_bound is the guess handed to assert_solution.
ParityExit ==
  /\ pc = "halving"
  /\ ~Lt(One, Sub(parity.high_bound, parity.low_bound))
  /\ pc' = "guessed"
  /\ UNCHANGED <<keyVars, textVars, sigVars, padVars, crackVars, attackVars>>

NextParity == GenerateKeypairFromPrimes \/ ParityStart \/ ParityStep \/ ParityExit

SpecParity == Init /\ [][NextParity]_vars

\* ceil(log2(n)) for n >= 1: the bits of n - 1.
CeilLog2(n) == bits(Sub(n, One))

\* C6: for every keypair and every plaintext m below n the loop makes at most
\* ceil(log2(n)) oracle calls and leaves high_bound = m.
C6_ParityConverges ==
  (pc \in {"halving", "guessed", "parity_aborted"} /\ Lt(message, keypair.val.pub.n)) =>
    /\ pc # "parity_aborted"
    /\ parity.calls <= CeilLog2(keypair.val.pub.n)
    /\ pc = "guessed" => parity.high_bound = message

\* A pass of the loop moves one bound inwards and narrows the interval.
ParityNarrows ==
  pc = "halving" /\ pc' = "halving" =>
    /\ Le(parity.low_bound, parity'.low_bound)
    /\ Le(parity'.high_bound, parity.high_bound)
    /\ Lt(Sub(parity'.high_bound, parity'.low_bound), Sub(parity.high_bound, parity.low_bound))

\* The plaintext m < n is within the bounds.
ParityContains ==
  pc \in {"halving", "guessed"} /\ Lt(message, keypair.val.pub.n) =>
    Le(parity.low_bound, message) /\ Le(message, parity.high_bound)

\* C26: in every iteration of the parity attack low_bound does not decrease,
\* high_bound does not increase, the width high_bound - low_bound strictly
\* decreases, and the plaintext m satisfies low_bound <= m <= high_bound.
C26_ParityBounds == [][ParityNarrows]_vars /\ []ParityContains

(***************************************************************************)
(* e_3_broadcast_attack (tests/set5) and unpadded_message_recovery         *)
(* (tests/set6/challenge41_unpadded_message_recovery.rs)                   *)
(***************************************************************************)

\* Primes p = 2 mod 3 of the three keypairs of the broadcast.
BroadcastPrimePairs ==
  {<<<<5>>, <<11>>>>, <<<<17>>, <<23>>>>, <<<<29>>, <<41>>>>, <<<<5>>, <<17>>>>, <<<<47>>, <<53>>>>}

BroadcastMessages == {BigFrom(k) : k \in {0, 1, 2, 3, 42, 54}}

\* The result of a step that unwraps an Option.
unwrap(x) == IF x.tag = "Some" THEN x ELSE Abort

\* challenge40: three keypairs, one plaintext under each public key, the attack.
Broadcasted(m, k_0, k_1, k_2) ==
  /\ k_0.tag = "Some" /\ k_1.tag = "Some" /\ k_2.tag = "Some"
  /\ Le(m, k_0.val.pub.n) /\ Le(m, k_1.val.pub.n) /\ Le(m, k_2.val.pub.n)
  /\ broadcast' =
       [n |-> <<k_0.val.pub.n, k_1.val.pub.n, k_2.val.pub.n>>,
        m |-> m,
        out |-> e_3_broadcast_attack(
                  <<<<k_0.val.pub, RSAPublicKey_textbook_process(k_0.val.pub, m).val>>,
                    <<k_1.val.pub, RSAPublicKey_textbook_process(k_1.val.pub, m).val>>,
                    <<k_2.val.pub, RSAPublicKey_textbook_process(k_2.val.pub, m).val>>>>)]

Broadcast ==
  /\ pc = "start"
  /\ \E m \in BroadcastMessages, pq_0 \in BroadcastPrimePairs,
        pq_1 \in BroadcastPrimePairs, pq_2 \in BroadcastPrimePairs :
       \E k_0 \in {generate_rsa_keypair_from_primes(E, pq_0[1], pq_0[2])},
          k_1 \in {generate_rsa_keypair_from_primes(E, pq_1[1], pq_1[2])},
          k_2 \in {generate_rsa_keypair_from_primes(E, pq_2[1], pq_2[2])} :
         Broadcasted(m, k_0, k_1, k_2)
  /\ pc' = "broadcast"
  /\ UNCHANGED <<keyVars, textVars, sigVars, padVars, crackVars, parity, recovery, forgery, server>>

\* The values of s handed to unpadded_message_recovery under a modulus n.
RecoveryMultipliers(n) ==
  {BigFrom(k) : k \in 1..6} \cup {Sub(n, One), n, Add(n, One), Add(n, <<2>>)}

\* challenge41: Server::encrypt of a plaintext, then unpadded_message_recovery
\* with an oracle that answers the textbook decryption (unwrap).
Recovered(s, c, asked) ==
  /\ ciphertext' = Some(c)
  /\ recovery' = [s |-> s, asked |-> <<asked>>,
                  out |-> unpadded_message_recovery(keypair.val.pub, s,
                            unwrap(RSAPrivateKey_textbook_process(keypair.val.priv, asked)))]

RecoveredFrom(s, c) ==
  \E asked \in {malleated_ciphertext(keypair.val.pub, s, c)} : Recovered(s, c, asked)

Recover ==
  /\ pc = "keyed"
  /\ \E m \in Messages(keypair.val.pub.n, primes), s \in RecoveryMultipliers(keypair.val.pub.n) :
       /\ Le(m, keypair.val.pub.n)
       /\ message' = m
       /\ \E c \in {RSAPublicKey_textbook_process(keypair.val.pub, m).val} : RecoveredFrom(s, c)
  /\ pc' = "recovered"
  /\ UNCHANGED <<keyVars, plaintext, sigVars, padVars, crackVars, parity, broadcast, forgery, server>>

NextAttacks == GenerateKeypairFromPrimes \/ Broadcast \/ Recover

SpecAttacks == Init /\ [][NextAttacks]_vars

\* gcd(a, b) = 1
Coprime(a, b) == egcd(to_bigint(a), to_bigint(b))[1] = to_bigint(One)

\* C7: for three public keys with exponent 3 and pairwise coprime moduli and a
\* plaintext m below each modulus, e_3_broadcast_attack on the three
\* ciphertexts does not abort and returns m.
C7_BroadcastRecovers ==
  (/\ pc = "broadcast"
   /\ Coprime(broadcast.n[1], broadcast.n[2])
   /\ Coprime(broadcast.n[1], broadcast.n[3])
   /\ Coprime(broadcast.n[2], broadcast.n[3])
   /\ \A i \in 1..3 : Lt(broadcast.m, broadcast.n[i]))
    => broadcast.out = Some(broadcast.m)

\* C8: for every public key, every s coprime to n and every plaintext m below
\* n, unpadded_message_recovery asks the oracle once, for (s^e mod n) * c mod n,
\* and returns m.
C8_RecoveryReturnsPlaintext ==
  (pc = "recovered" /\ Coprime(recovery.s, keypair.val.pub.n) /\ Lt(message, keypair.val.pub.n))
    => /\ recovery.asked =
            <<Mod(Mul(modpow(recovery.s, keypair.val.pub.e, keypair.val.pub.n), ciphertext.val),
                  keypair.val.pub.n)>>
       /\ recovery.out = Some(message)

(***************************************************************************)
(* The signature forgery of                                                *)
(* tests/set6/challenge42_bleichenbacher_e_3_rsa_attack.rs                 *)
(***************************************************************************)

\* The digests the forgery is tried with.
ForgeryDigests == {TinyDigest, SmallDigest, SHA1, SHA256}

ForgeryMessages == {<<>>, <<72, 105>>, <<104, 105, 32, 109, 111, 109>>, <<0>>}

\* Two primes of 512 bits, both 2 mod 3, whose product has 128 bytes as the
\* modulus of RSA_KEYPAIR_0 has.
BigPrime_p == Add(pow2(511), BigFrom(111))

BigPrime_q == Add(pow2(511), BigFrom(1299))

\* The primes of the keypairs the forgery is tried against: moduli of 128
\* bytes, of 13 bytes, of 8 bytes and of a single byte (253 of test_rsa_full,
\* and 187).
TestKeyPrimes ==
  {<<BigPrime_p, BigPrime_q>>,
   <<<<8, 0, 0, 0, 0, 0, 21>>, <<8, 0, 0, 0, 0, 0, 81>>>>,
   <<<<8, 0, 0, 0, 0, 0, 21>>, <<11>>>>,
   <<<<11>>, <<23>>>>,
   <<<<11>>, <<17>>>>}

GenerateTestKeypair ==
  /\ pc = "start"
  /\ \E pq \in TestKeyPrimes :
       \E result \in {generate_rsa_keypair_from_primes(E, pq[1], pq[2])} :
         Keyed(result, pq[1], pq[2])

\* left_bytes of forge_signature.
left_bytes(D, block_len, m) ==
  <<0, 1, 255, 0>> \o D.ASN1_PREFIX \o digest(D, m)
    \o [i \in 1..(block_len - 4 - Len(D.ASN1_PREFIX) - D.OUTPUT_LENGTH) |-> 0]

\* forge_signature without the 1 added to the cube root.
forge_signature_rounded_down(D, block_len, m) ==
  IF block_len - 4 - Len(D.ASN1_PREFIX) - D.OUTPUT_LENGTH < 0 THEN Abort
  ELSE Some(cbrt(from_bytes_be(left_bytes(D, block_len, m))))

\* forge_signature::<D>(block_len, message)
forge_signature(D, block_len, m) ==
  IF block_len - 4 - Len(D.ASN1_PREFIX) - D.OUTPUT_LENGTH < 0 THEN Abort
  ELSE Some(Add(cbrt(from_bytes_be(left_bytes(D, block_len, m))), One))

Forged(D, m, f) ==
  /\ forgery' = [D |-> D, message |-> m, f |-> f, decrypted |-> None, verdict |-> "none"]
  /\ pc' = IF f.tag = "Some" THEN "forged" ELSE "forge_aborted"

Forge ==
  /\ pc = "keyed"
  /\ \E D \in ForgeryDigests, m \in ForgeryMessages :
       \E f \in {forge_signature(D, len_bytes(keypair.val.pub), m)} : Forged(D, m, f)
  /\ UNCHANGED <<keyVars, textVars, sigVars, padVars, crackVars, parity, broadcast, recovery, server>>

\* public_key.verify::<BadPKCS1v1_5, D>(message, forged_signature)
VerifiedForged(decrypted) ==
  forgery' = [forgery EXCEPT
                !.decrypted = decrypted,
                !.verdict = verify_decrypted(keypair.val.pub, "BadPKCS1v1_5", forgery.D,
                                             forgery.message, decrypted)]

VerifyForged ==
  /\ pc = "forged"
  /\ \E decrypted \in {RSAPublicKey_textbook_process(keypair.val.pub, forgery.f.val)} :
       VerifiedForged(decrypted)
  /\ pc' = "forge_verified"
  /\ UNCHANGED <<keyVars, textVars, sigVars, padVars, crackVars, parity, broadcast, recovery, server>>

NextForge == GenerateTestKeypair \/ Forge \/ VerifyForged

SpecForge == Init /\ [][NextForge]_vars

\* What the claim says of f: f^3 is below n and its bytes begin 01 FF 00
\* prefix digest.
ForgedCubeReads(key, call) ==
  /\ call.decrypted = Some(Mul(Mul(call.f.val, call.f.val), call.f.val))
  /\ Len(call.decrypted.val) = len_bytes(key) - 1
  /\ SubSeq(call.decrypted.val, 1, 3 + Len(call.D.ASN1_PREFIX) + call.D.OUTPUT_LENGTH)
       = <<1, 255, 0>> \o call.D.ASN1_PREFIX \o digest(call.D, call.message)

\* C9 as claimed: with e = 3 and a modulus of 128 bytes, for every digest and
\* every message the forged f = floor(cbrt(X)) + 1 verifies under BadPKCS1v1_5.
C9_ForgeryVerifies ==
  (pc = "forge_verified" /\ len_bytes(keypair.val.pub) = 128) =>
    /\ forgery.verdict = "true"
    /\ ForgedCubeReads(keypair.val.pub, forgery)

\* C9 amended: the same for the digests whose prefix and output take at most
\* 39 bytes together (SHA1 with 15 + 20), which leaves the 85 low bytes that
\* adding 1 to the cube root disturbs to the garbage.
C9_ForgeryVerifiesShortDigest ==
  (/\ pc = "forge_verified"
   /\ len_bytes(keypair.val.pub) = 128
   /\ Len(forgery.D.ASN1_PREFIX) + forgery.D.OUTPUT_LENGTH <= 39) =>
    /\ forgery.verdict = "true"
    /\ ForgedCubeReads(keypair.val.pub, forgery)

\* The forgery for SHA1 against the modulus of 128 bytes was verified.
C9_Witness ==
  /\ pc = "forge_verified"
  /\ len_bytes(keypair.val.pub) = 128
  /\ forgery.D = SHA1
  /\ forgery.message = <<104, 105, 32, 109, 111, 109>>
  /\ forgery.verdict = "true"

(***************************************************************************)
(* The textbook transformation of both keys on its own.                    *)
(***************************************************************************)

\* public_key.textbook_process(m)
ProcessPublic ==
  /\ pc = "keyed"
  /\ \E m \in Messages(keypair.val.pub.n, primes) :
       /\ message' = m
       /\ ciphertext' = RSAPublicKey_textbook_process(keypair.val.pub, m)
  /\ pc' = "public_processed"
  /\ UNCHANGED <<keyVars, plaintext, sigVars, padVars, crackVars, attackVars>>

\* private_key.textbook_process(m)
ProcessPrivate ==
  /\ pc = "keyed"
  /\ \E m \in Messages(keypair.val.priv.n, primes) :
       /\ message' = m
       /\ plaintext' = RSAPrivateKey_textbook_process(keypair.val.priv, m)
  /\ pc' = "private_processed"
  /\ UNCHANGED <<keyVars, ciphertext, sigVars, padVars, crackVars, attackVars>>

NextTextbook == GenerateKeypairFromPrimes \/ ProcessPublic \/ ProcessPrivate

SpecTextbook == Init /\ [][NextTextbook]_vars

\* b^k mod n by k multiplications.
RECURSIVE NatPowMod(_, _, _)
NatPowMod(b, k, n) == IF k = 0 THEN 1 % n ELSE (b * NatPowMod(b, k - 1, n)) % n

\* What the transformation is to return: nothing for message >= n, and
\* message^exponent mod n below n.
TextbookExpected(m, exponent, n) ==
  IF Lt(m, n) THEN Some(BigFrom(NatPowMod(ToNat(m), ToNat(exponent), ToNat(n)))) ELSE None

\* C11: textbook_process of the public and of the private key returns nothing
\* for every message >= n, message = n included, and Some(message^exponent
\* mod n) for every message < n.
C11_TextbookProcess ==
  /\ pc = "public_processed" =>
       ciphertext = TextbookExpected(message, keypair.val.pub.e, keypair.val.pub.n)
  /\ pc = "private_processed" =>
       plaintext = TextbookExpected(message, keypair.val.priv.d, keypair.val.priv.n)

(***************************************************************************)
(* generate_rsa_keypair_from_primes on its own: every exponent and every   *)
(* pair of small primes.                                                   *)
(***************************************************************************)

\* Largest exponent tried, next to 65537.
MaxExponent == 13

KeygenExponents == {BigFrom(k) : k \in 1..MaxExponent} \cup {<<1, 0, 1>>}

KeygenPrimes == {BigFrom(k) : k \in {2, 3, 5, 7, 11, 13, 17, 23}}

\* generate_rsa_keypair_from_primes(e, p, q) for any e, p and q
GenerateFromKeyMaterial ==
  /\ pc = "start"
  /\ \E e \in KeygenExponents, p \in KeygenPrimes, q \in KeygenPrimes :
       /\ keygen' = [e |-> e, p |-> p, q |-> q]
       /\ keypair' = generate_rsa_keypair_from_primes(e, p, q)
       /\ primes' = <<p, q>>
  /\ pc' = "generated"
  /\ UNCHANGED <<arith, primality, generated, textVars, sigVars, padVars, crackVars, attackVars>>

NextKeygen == GenerateFromKeyMaterial

SpecKeygen == Init /\ [][NextKeygen]_vars

RECURSIVE NatGcd(_, _)
NatGcd(a, b) == IF b = 0 THEN a ELSE NatGcd(b, a % b)

\* lcm(p - 1, q - 1)
NatLcm1(p, q) == ((p - 1) * (q - 1)) \div NatGcd(p - 1, q - 1)

KeygenLcm == NatLcm1(ToNat(keygen.p), ToNat(keygen.q))

\* C12: generate_rsa_keypair_from_primes(e, p, q) returns None if and only if
\* gcd(e, lcm(p - 1, q - 1)) # 1 and a keypair otherwise; no input makes it
\* abort, e >= lcm(p - 1, q - 1) included.
C12_BadKeyMaterialIsNone ==
  pc = "generated" =>
    /\ keypair.tag # "Abort"
    /\ keypair = None <=> NatGcd(ToNat(keygen.e), KeygenLcm) # 1

\* C13: whenever generate_rsa_keypair_from_primes(e, p, q) returns a keypair,
\* both keys carry the modulus n = p * q, the public exponent is e, and the
\* private exponent d satisfies 0 < d < lcm(p - 1, q - 1) and
\* d * e mod lcm(p - 1, q - 1) = 1.
C13_KeyInvariant ==
  (pc = "generated" /\ keypair.tag = "Some") =>
    /\ keypair.val.pub.n = BigFrom(ToNat(keygen.p) * ToNat(keygen.q))
    /\ keypair.val.priv.n = keypair.val.pub.n
    /\ keypair.val.pub.e = keygen.e
    /\ 0 < ToNat(keypair.val.priv.d)
    /\ ToNat(keypair.val.priv.d) < KeygenLcm
    /\ (ToNat(keypair.val.priv.d) * ToNat(keygen.e)) % KeygenLcm = 1

\* The keypair of e = 7, p = 7, q = 11 was generated: d = 13 below lcm = 30.
C13_Witness ==
  /\ pc = "generated"
  /\ keygen = [e |-> <<7>>, p |-> <<7>>, q |-> <<11>>]
  /\ keypair.tag = "Some"
  /\ keypair.val.priv.d = <<13>>

(***************************************************************************)
(* The parsers of the padding on any input: unpad_verify of both signature *)
(* schemes and unpad of the encryption padding.                            *)
(***************************************************************************)

\* Largest block length and longest padding of the encryption blocks tried.
MaxEncBlockLen == 16

MaxEncPadding == 10

\* The plaintexts padded: empty, text, with a zero byte in front and inside.
PadPlaintexts == {<<>>, <<72, 105>>, <<0, 7>>, <<7, 0, 9>>}

\* k padding bytes without a zero.
PaddingRuns(k) == {[i \in 1..k |-> 186], [i \in 1..k |-> 255], [i \in 1..k |-> i]}

\* The blocks handed to unpad: a type byte, k bytes of padding, and either
\* the separator and a plaintext or nothing.
EncBlocks ==
  {<<type>> \o padding \o rest :
     type \in {0, 1, 2, 19},
     padding \in UNION {PaddingRuns(k) : k \in 0..MaxEncPadding},
     rest \in {<<0>> \o data : data \in PadPlaintexts} \cup {<<>>}}

\* PKCS1v1_5::unpad(block_len, x) of any x
Unpad ==
  /\ pc = "start"
  /\ \E block_len \in 0..MaxEncBlockLen, b \in EncBlocks :
       pad_call' = [NoPadCall EXCEPT !.block_len = block_len,
                                     !.x = from_bytes_be(b),
                                     !.unpadded = PKCS1v1_5_unpad(block_len, from_bytes_be(b))]
  /\ pc' = "enc_unpadded"
  /\ UNCHANGED <<keyVars, textVars, sigVars, unpad_call, accepted, padded_hash, crackVars,
                 attackVars>>

NextParsers == UnpadVerify \/ Unpad

SpecParsers == Init /\ [][NextParsers]_vars

\* C14: for every block_len and every input, PKCS1v1_5::unpad_verify and
\* BadPKCS1v1_5::unpad_verify answer (and answer false on a block shorter than
\* prefix_len + digest_len + 2 and on 01 followed by 0xff bytes only), and
\* PKCS1v1_5::unpad returns; none of them aborts.
C14_ParsersAreTotal ==
  /\ pc = "unpadded" =>
       /\ accepted \in {"true", "false"}
       /\ (\/ Len(to_bytes_be(unpad_call.signature))
                < Len(unpad_call.D.ASN1_PREFIX) + unpad_call.D.OUTPUT_LENGTH + 2
           \/ to_bytes_be(unpad_call.signature)
                = <<1>> \o [i \in 1..(Len(to_bytes_be(unpad_call.signature)) - 1) |-> 255])
            => accepted = "false"
  /\ pc = "enc_unpadded" => pad_call.unpadded.tag \in {"Some", "None"}

(***************************************************************************)
(* hash_pad of both signature schemes on its own.                          *)
(***************************************************************************)

\* Largest block length handed to hash_pad.
MaxSignBlockLen == 48

HashPadDigests == {TinyDigest, SmallDigest, SHA1}

\* S::hash_pad::<D>(block_len, message)
HashPad ==
  /\ pc = "start"
  /\ \E S \in Schemes, D \in HashPadDigests, block_len \in 0..MaxSignBlockLen,
        m \in SignMessages :
       padded_hash' = [S |-> S, D |-> D, block_len |-> block_len, message |-> m,
                       out |-> hash_pad(S, D, block_len, m)]
  /\ pc' = "hash_padded"
  /\ UNCHANGED <<keyVars, textVars, sigVars, unpad_call, accepted, pad_call, crackVars,
                 attackVars>>

NextHashPad == HashPad

SpecHashPad == Init /\ [][NextHashPad]_vars

\* prefix_len + digest_len + 11 of a call of hash_pad.
HashPadFloor(call) == Len(call.D.ASN1_PREFIX) + call.D.OUTPUT_LENGTH + 11

\* C15: hash_pad of PKCS1v1_5 and of BadPKCS1v1_5 returns None iff
\* block_len < prefix_len + digest_len + 11; otherwise the block_len bytes of
\* the result are 00, 01, 0xff k times, 00, ASN1_PREFIX, digest(message) with
\* k = block_len - prefix_len - digest_len - 3 >= 8.
C15_SignatureBlockLayout ==
  pc = "hash_padded" =>
    /\ padded_hash.out = None <=> padded_hash.block_len < HashPadFloor(padded_hash)
    /\ padded_hash.block_len >= HashPadFloor(padded_hash) =>
         /\ padded_hash.out.tag = "Some"
         /\ Len(padded_hash.out.val) <= padded_hash.block_len
         /\ padded_hash.block_len - HashPadFloor(padded_hash) + 8 >= 8
         /\ signature_bytes(padded_hash.out.val, padded_hash.block_len)
              = <<0, 1>>
                  \o [i \in 1..(padded_hash.block_len - HashPadFloor(padded_hash) + 8) |-> 255]
                  \o <<0>> \o padded_hash.D.ASN1_PREFIX
                  \o digest(padded_hash.D, padded_hash.message)

\* hash_pad::<SHA1> built the shortest block there is: 46 bytes, 8 of padding.
C15_Witness ==
  /\ pc = "hash_padded"
  /\ padded_hash.D = SHA1
  /\ padded_hash.block_len = 46
  /\ padded_hash.out.tag = "Some"
  /\ SubSeq(padded_hash.out.val, 1, 10) = <<1, 255, 255, 255, 255, 255, 255, 255, 255, 0>>

(***************************************************************************)
(* The encryption padding on its own: pad, unpad of what pad returned, and *)
(* unpad of any block.                                                     *)
(***************************************************************************)

\* What thread_rng yields to pad: bytes with zeros among them.
PadStreams ==
  {[i \in 1..24 |-> 255],
   [i \in 1..24 |-> i],
   [i \in 1..24 |-> IF i % 3 = 0 THEN 0 ELSE 186 - i],
   <<0, 0, 0, 1, 0, 2, 3, 0, 0, 4, 5, 6, 7, 8, 9, 10, 0, 11, 12, 13, 14, 15, 16, 17>>}

\* PKCS1v1_5::pad(block_len, plaintext)
Pad ==
  /\ pc = "start"
  /\ \E block_len \in 0..MaxEncBlockLen, plaintext_ \in PadPlaintexts, stream \in PadStreams :
       pad_call' = [NoPadCall EXCEPT !.block_len = block_len,
                                     !.plaintext = plaintext_,
                                     !.stream = stream,
                                     !.padded = PKCS1v1_5_pad(block_len, plaintext_, stream)]
  /\ pc' = "padded"
  /\ UNCHANGED <<keyVars, textVars, sigVars, unpad_call, accepted, padded_hash, crackVars,
                 attackVars>>

\* PKCS1v1_5::unpad(block_len, padded) of what pad returned
UnpadPadded ==
  /\ pc = "padded"
  /\ pad_call.padded.tag = "Some"
  /\ pad_call' = [pad_call EXCEPT
                    !.x = pad_call.padded.val,
                    !.unpadded = PKCS1v1_5_unpad(pad_call.block_len, pad_call.padded.val)]
  /\ pc' = "round_tripped"
  /\ UNCHANGED <<keyVars, textVars, sigVars, unpad_call, accepted, padded_hash, crackVars,
                 attackVars>>

NextEncPad == Pad \/ UnpadPadded \/ Unpad

SpecEncPad == Init /\ [][NextEncPad]_vars

\* The padding bytes of a block that pad returned.
PaddingOf(call) ==
  SubSeq(to_bytes_be(call.padded.val), 2, call.block_len - 2 - Len(call.plaintext))

\* C16: PKCS1v1_5::pad(block_len, plaintext) returns None iff
\* block_len < plaintext.len() + 11; otherwise, whatever the random bytes,
\* the result has exactly block_len - 1 bytes: 02, then
\* k = block_len - 3 - plaintext.len() >= 8 bytes none of which is zero, then
\* 00, then the plaintext.
C16_EncryptionBlockLayout ==
  pc = "padded" =>
    /\ pad_call.padded = None <=> pad_call.block_len < Len(pad_call.plaintext) + 11
    /\ pad_call.block_len >= Len(pad_call.plaintext) + 11 =>
         /\ pad_call.padded.tag = "Some"
         /\ Len(to_bytes_be(pad_call.padded.val)) = pad_call.block_len - 1
         /\ to_bytes_be(pad_call.padded.val)[1] = 2
         /\ Len(PaddingOf(pad_call)) = pad_call.block_len - 3 - Len(pad_call.plaintext)
         /\ Len(PaddingOf(pad_call)) >= 8
         /\ \A i \in 1..Len(PaddingOf(pad_call)) : PaddingOf(pad_call)[i] # 0
         /\ to_bytes_be(pad_call.padded.val)[pad_call.block_len - 1 - Len(pad_call.plaintext)] = 0
         /\ SubSeq(to_bytes_be(pad_call.padded.val),
                   pad_call.block_len - Len(pad_call.plaintext), pad_call.block_len - 1)
              = pad_call.plaintext

\* A plaintext of two bytes was padded to 13 bytes from a stream that starts
\* with zeros: 8 padding bytes, none of them zero.
C16_Witness ==
  /\ pc = "padded"
  /\ pad_call.block_len = 13
  /\ pad_call.plaintext = <<72, 105>>
  /\ pad_call.stream[1] = 0
  /\ pad_call.padded = Some(<<2, 1, 2, 3, 4, 5, 6, 7, 8, 0, 72, 105>>)

\* C17: for every block_len, every plaintext with plaintext.len() + 11 <=
\* block_len (plaintexts that contain or start with zero bytes included) and
\* every choice of the random padding,
\* unpad(block_len, pad(block_len, plaintext)) = Some(plaintext).
C17_EncryptionPaddingRoundTrip ==
  /\ (pc = "padded" /\ Len(pad_call.plaintext) + 11 <= pad_call.block_len) =>
       pad_call.padded.tag = "Some"
  /\ pc = "round_tripped" => pad_call.unpadded = Some(pad_call.plaintext)

\* A plaintext with a zero byte inside came back from a block of 16 bytes.
C17_Witness ==
  /\ pc = "round_tripped"
  /\ pad_call.plaintext = <<7, 0, 9>>
  /\ pad_call.block_len = 16
  /\ pad_call.unpadded = Some(<<7, 0, 9>>)

\* The index of the first zero byte after the type byte of the bytes b, or 0.
FirstZero(b) ==
  IF \E z \in 2..Len(b) : b[z] = 0
  THEN CHOOSE z \in 2..Len(b) : b[z] = 0 /\ \A j \in 2..(z - 1) : b[j] # 0
  ELSE 0

\* The bytes b have block_len - 1 bytes, start with 02, and at least 8
\* non-zero bytes precede their first zero byte.
UnpadAccepts(block_len, b) ==
  /\ Len(b) = block_len - 1
  /\ b[1] = 2
  /\ FirstZero(b) >= 10

\* C18: PKCS1v1_5::unpad(block_len, x) returns Some(r) iff the bytes of x have
\* length block_len - 1, start with 02 and the first zero byte after the type
\* byte is preceded by at least 8 non-zero bytes; r is every byte after that
\* zero.  Fewer than 8 padding bytes, no zero separator, another type byte or
\* another length give None; exactly 8 padding bytes are accepted.
C18_UnpadAcceptance ==
  pc = "enc_unpadded" =>
    /\ pad_call.unpadded.tag = "Some" <=> UnpadAccepts(pad_call.block_len, to_bytes_be(pad_call.x))
    /\ pad_call.unpadded.tag # "Some" => pad_call.unpadded = None
    /\ UnpadAccepts(pad_call.block_len, to_bytes_be(pad_call.x)) =>
         pad_call.unpadded
           = Some(SubSeq(to_bytes_be(pad_call.x), FirstZero(to_bytes_be(pad_call.x)) + 1,
                         Len(to_bytes_be(pad_call.x))))
    /\ (FirstZero(to_bytes_be(pad_call.x)) = 10 /\ to_bytes_be(pad_call.x)[1] = 2
        /\ Len(to_bytes_be(pad_call.x)) = pad_call.block_len - 1)
         => pad_call.unpadded.tag = "Some"

\* A block with exactly 8 padding bytes was unpadded to its plaintext.
C18_Witness ==
  /\ pc = "enc_unpadded"
  /\ pad_call.block_len = 13
  /\ pad_call.x = <<2, 186, 186, 186, 186, 186, 186, 186, 186, 0, 72, 105>>
  /\ pad_call.unpadded = Some(<<72, 105>>)

(***************************************************************************)
(* inv_mod and egcd on their own.                                          *)
(***************************************************************************)

\* Largest operand tried, next to those of the tests.
MaxOperand == 40

Operands == {BigFrom(k) : k \in 0..MaxOperand} \cup {<<17>>, BigFrom(2753), BigFrom(3120)}

InvModFunctions == {"rsa::util::inv_mod", "util::inv_mod"}

\* inv_mod(a, &n) of src/src/rsa/util.rs or of src/src/util/mod.rs, n >= 1
InvMod ==
  /\ pc = "start"
  /\ \E f \in InvModFunctions, a \in Operands, n \in Operands \ {Zero} :
       arith' = [f |-> f, a |-> a, b |-> n,
                 out |-> IF f = "rsa::util::inv_mod" THEN inv_mod(a, n) ELSE util_inv_mod(a, n)]
  /\ pc' = "inverted"
  /\ UNCHANGED <<keypair, primes, keygen, primality, generated, textVars, sigVars, padVars, crackVars, attackVars>>

\* egcd(a, b)
Egcd ==
  /\ pc = "start"
  /\ \E a \in Operands, b \in Operands :
       arith' = [f |-> "egcd", a |-> a, b |-> b, out |-> egcd(to_bigint(a), to_bigint(b))]
  /\ pc' = "egcd_returned"
  /\ UNCHANGED <<keypair, primes, keygen, primality, generated, textVars, sigVars, padVars, crackVars, attackVars>>

NextArith == InvMod \/ Egcd

SpecArith == Init /\ [][NextArith]_vars

\* C19: inv_mod(a, n) for n >= 1 and every a >= 0 returns None iff
\* gcd(a, n) # 1 and otherwise Some(x) with 0 <= x < n and
\* a * x mod n = 1 mod n; it returns for every a, a >= n included.
C19_InvMod ==
  pc = "inverted" =>
    /\ arith.out.tag \in {"Some", "None"}
    /\ arith.out = None <=> NatGcd(ToNat(arith.a), ToNat(arith.b)) # 1
    /\ arith.out.tag = "Some" =>
         /\ ToNat(arith.out.val) < ToNat(arith.b)
         /\ (ToNat(arith.a) * ToNat(arith.out.val)) % ToNat(arith.b) = 1 % ToNat(arith.b)

\* The integer of a BigInt.
ToInt(i) == IF i.neg THEN 0 - ToNat(i.mag) ELSE ToNat(i.mag)

MaxCandidate == 25

Candidates == {BigFrom(c) : c \in 2..MaxCandidate}

\* gen_biguint_range(lo, hi) and gen_biguint_below(hi): every value of [lo, hi).
gen_biguint_range(lo, hi) == BigRangeInclusive(lo, Sub(hi, One))

\* What rabin_miller answers before its rounds, "none" when the rounds run.
rabin_miller_early(candidate) ==
  IF candidate = <<2>> THEN "true" ELSE IF is_even(candidate) THEN "false" ELSE "none"

\* One round of the loop of rabin_miller with the basis drawn.
rabin_miller_round(basis, candidate, sd) ==
  rabin_miller_basis(modpow(basis, sd[2], candidate), sd[1], Sub(candidate, One), candidate)

\* What a test answers after a round: false on a failed round, true after
\* the last one.
round_out(pass, k, rounds) ==
  IF ~pass THEN "false" ELSE IF k >= rounds THEN "true" ELSE "none"

Tested(f, candidate, k, basis, out) ==
  /\ primality' = [f |-> f, candidate |-> candidate, k |-> k, basis |-> basis, out |-> out]
  /\ pc' = IF out = "none" THEN f ELSE "tested"
  /\ UNCHANGED <<keypair, primes, keygen, arith, generated, textVars, sigVars, padVars,
                 crackVars, attackVars>>

\* rabin_miller(candidate) up to its loop
RabinMiller ==
  /\ pc = "start"
  /\ \E candidate \in Candidates :
       Tested("rabin_miller", candidate, 0, Zero, rabin_miller_early(candidate))

\* One pass of the loop of rabin_miller: _k advances by 2.
RabinMillerRound ==
  /\ pc = "rabin_miller"
  /\ \E basis \in gen_biguint_range(<<2>>, primality.candidate) :
       \E pass \in {rabin_miller_round(basis, primality.candidate,
                                       rewrite(Sub(primality.candidate, One)))} :
         Tested("rabin_miller", primality.candidate, primality.k + 2, basis,
                round_out(pass, primality.k + 2, RABIN_MILLER_K))

\* fermat(candidate) up to its loop
Fermat ==
  /\ pc = "start"
  /\ \E candidate \in Candidates : Tested("fermat", candidate, 0, Zero, "none")

\* One pass of the loop of fermat.
FermatRound ==
  /\ pc = "fermat"
  /\ \E random \in gen_biguint_range(Zero, primality.candidate) :
       \E pass \in {fermat_round(random, primality.candidate)} :
         Tested("fermat", primality.candidate, primality.k + 1, random,
                round_out(pass, primality.k + 1, FERMAT_ROUNDS))

NextPrimality == RabinMiller \/ RabinMillerRound \/ Fermat \/ FermatRound

SpecPrimality == Init /\ [][NextPrimality]_vars

IsPrime(c) == c >= 2 /\ \A d \in 2..(c - 1) : c % d # 0

RECURSIVE OddPart(_)
OddPart(c) == IF c > 0 /\ c % 2 = 0 THEN OddPart(c \div 2) ELSE c

\* b^(2^j * d) mod c is c - 1 for some j below the exponent of 2 in c - 1.
RECURSIVE SquaresToMinusOne(_, _, _)
SquaresToMinusOne(b, x, c) ==
  x < c - 1 /\ (NatPowMod(b, x, c) = c - 1 \/ SquaresToMinusOne(b, 2 * x, c))

\* b is a strong liar for the odd number c: c is a strong probable prime to
\* base b.
StrongLiar(b, c) ==
  NatPowMod(b, OddPart(c - 1), c) = 1 \/ SquaresToMinusOne(b, OddPart(c - 1), c)

RabinMillerOf(c) == primality.f = "rabin_miller" /\ primality.candidate = BigFrom(c)

\* C21 as the specification states it: whatever bases are drawn,
\* rabin_miller returns true for a prime and false for a composite.
C21_RabinMillerDecides ==
  primality.f = "rabin_miller" /\ primality.out # "none"
    => (primality.out = "true" <=> IsPrime(ToNat(primality.candidate)))

\* C21, amended: rabin_miller returns true for every prime whatever bases
\* are drawn and false for every even composite; for an odd composite it
\* returns false in the round that draws a witness, and its rounds go on,
\* up to returning true after the last, exactly while the bases drawn are
\* strong liars of the candidate.
C21_RabinMillerUpToLiars ==
  \A c \in 2..MaxCandidate :
    RabinMillerOf(c) =>
      /\ IsPrime(c) => primality.out # "false"
      /\ c > 2 /\ c % 2 = 0 => primality.out = "false"
      /\ primality.out = "true" => c = 2 \/ primality.k = RABIN_MILLER_K
      /\ primality.out = "none" => primality.k < RABIN_MILLER_K
      /\ c % 2 = 1 /\ primality.k > 0 =>
           (primality.out = "false" <=> ~StrongLiar(ToNat(primality.basis), c))

C21_Witness ==
  /\ RabinMillerOf(25)
  /\ primality.basis = <<7>>
  /\ primality.out = "true"

\* C28: no prime is rejected by fermat or by rabin_miller, whatever bases are
\* drawn (fermat from [0, candidate), rabin_miller from [2, candidate)).
C28_PrimesPass ==
  primality.f \in {"fermat", "rabin_miller"} /\ IsPrime(ToNat(primality.candidate))
    => primality.out # "false"

(***************************************************************************)
(* gen_prime and gen_rsa_prime of src/src/rsa/primes.rs, one candidate at  *)
(* a time.                                                                 *)
(***************************************************************************)

\* Bit lengths up to which every value of the range is drawn.
MaxFullBits == 7

\* Bit lengths handed to gen_prime and gen_rsa_prime.
PrimeBits == 2..MaxFullBits \cup {15}

gen_prime_lo(bits_) == Add(pow2(bits_ - 1), One)

gen_prime_hi(bits_) == Sub(pow2(bits_), One)

\* The candidates one pass of gen_prime can draw, the lowest bit set: all of
\* the range for a short one, those of the generator states otherwise.
gen_prime_draws(bits_) ==
  IF bits_ <= MaxFullBits
  THEN {set_bit0(v) : v \in gen_biguint_range(gen_prime_lo(bits_), gen_prime_hi(bits_))}
  ELSE {gen_prime_candidate(bits_, seed) : seed \in Seeds}

\* The call up to the loop; gen_biguint_range panics on an empty range.
Generating(f, bits_, e) ==
  /\ generated' = [f |-> f, bits |-> bits_, e |-> e, candidate |-> Zero, seed |-> 0,
                   out |-> IF Lt(gen_prime_lo(bits_), gen_prime_hi(bits_)) THEN None ELSE Abort]
  /\ pc' = IF Lt(gen_prime_lo(bits_), gen_prime_hi(bits_)) THEN "gen_prime" ELSE "aborted"
  /\ UNCHANGED <<keypair, primes, keygen, arith, primality, textVars, sigVars, padVars,
                 crackVars, attackVars>>

\* gen_prime(bits)
GenPrime ==
  /\ pc = "start"
  /\ \E bits_ \in PrimeBits : Generating("gen_prime", bits_, Zero)

\* gen_rsa_prime(bits, e)
GenRsaPrime ==
  /\ pc = "start"
  /\ \E bits_ \in PrimeBits, e \in Exponents : Generating("gen_rsa_prime", bits_, e)

\* One pass of the loop of gen_prime, within gen_rsa_prime or not: what the
\* tests make of the candidate drawn.
gen_pass(f, candidate, e, seed) ==
  IF f = "gen_prime" THEN gen_prime_of(candidate, seed) ELSE gen_rsa_prime_of(candidate, e, seed)

\* gen_prime_draws and gen_pass, tabulated once over the calls made here.
gen_prime_draws_of == [bits_ \in PrimeBits |-> gen_prime_draws(bits_)]

GenCalls == {<<"gen_prime", Zero>>} \cup {<<"gen_rsa_prime", e>> : e \in Exponents}

gen_pass_of ==
  [call \in GenCalls, candidate \in UNION {gen_prime_draws(bits_) : bits_ \in PrimeBits},
   seed \in Seeds |-> gen_pass(call[1], candidate, call[2], seed)]

\* The draw of a candidate, and of the generator state its tests draw from.
GenPrimeDraw ==
  /\ pc = "gen_prime"
  /\ \E candidate \in gen_prime_draws_of[generated.bits], seed \in Seeds :
       generated' = [generated EXCEPT !.candidate = candidate, !.seed = seed]
  /\ pc' = "gen_prime_test"
  /\ UNCHANGED <<keypair, primes, keygen, arith, primality, textVars, sigVars, padVars,
                 crackVars, attackVars>>

\* The tests of the candidate: it is returned, or dropped for the next pass.
GenPrimeTest ==
  /\ pc = "gen_prime_test"
  /\ \E out \in {gen_pass_of[<<generated.f, generated.e>>, generated.candidate,
                               generated.seed]} :
       /\ generated' = IF out.tag = "Some" THEN [generated EXCEPT !.out = out]
                       ELSE [generated EXCEPT !.candidate = Zero, !.seed = 0]
       /\ pc' = IF out.tag = "Some" THEN "generated" ELSE "gen_prime"
  /\ UNCHANGED <<keypair, primes, keygen, arith, primality, textVars, sigVars, padVars,
                 crackVars, attackVars>>

NextGenPrime == GenPrime \/ GenRsaPrime \/ GenPrimeDraw \/ GenPrimeTest

SpecGenPrime == Init /\ [][NextGenPrime]_vars

\* The draw of a candidate that the tests are going to return.
GenPrimeDrawReturned ==
  /\ GenPrimeDraw
  /\ gen_pass_of[<<generated'.f, generated'.e>>, generated'.candidate,
                 generated'.seed].tag = "Some"

\* Fair random draws: the loop goes on, and a candidate that is returned is
\* drawn if one can be drawn again and again.
SpecGenPrimeFair ==
  /\ SpecGenPrime
  /\ WF_vars(GenPrimeDraw)
  /\ WF_vars(GenPrimeTest)
  /\ SF_vars(GenPrimeDrawReturned)

GeneratedRsaPrime == generated.f = "gen_rsa_prime" /\ generated.out.tag = "Some"

\* C22: every value p that gen_rsa_prime(bits, e) returns is odd, lies in
\* [2^(bits-1)+1, 2^bits-1] and so has exactly `bits` bits, is divisible by
\* none of the first primes, has passed the Fermat rounds and the
\* Rabin-Miller test of its pass, and p mod e is not 1.
C22_GenRsaPrimePostcondition ==
  GeneratedRsaPrime =>
    /\ generated.out.val = generated.candidate
    /\ ToNat(generated.out.val) % 2 = 1
    /\ ToNat(generated.out.val) >= 2 ^ (generated.bits - 1) + 1
    /\ ToNat(generated.out.val) <= 2 ^ generated.bits - 1
    /\ bits(generated.out.val) = generated.bits
    /\ \A prime \in FIRST_PRIMES : ToNat(generated.out.val) % prime # 0
    /\ fermat(generated.out.val, generated.seed)
    /\ rabin_miller(generated.out.val, generated.seed)
    /\ ToNat(generated.out.val) % ToNat(generated.e) # 1

C22_Witness ==
  /\ GeneratedRsaPrime
  /\ generated.bits = 15
  /\ generated.e = E
  /\ generated.out = Some(generated.candidate)
  /\ ToNat(generated.candidate) % 3 = 2

\* C27: under fair draws gen_prime(bits) and gen_rsa_prime(bits, e) return
\* for every bit length bits >= 2: a call that has reached its loop leaves it
\* with a candidate that the sieve, the Fermat test and the Rabin-Miller test
\* accept.
C27_GenPrimeReturns == (generated.f # "none" /\ generated.bits >= 2) ~> (pc = "generated")

(***************************************************************************)
(* generate_rsa_keypair of src/src/rsa/mod.rs and the keys it returns.     *)
(***************************************************************************)

NextGenerate == GenerateKeypair \/ Encrypt \/ Decrypt

SpecGenerate == Init /\ [][NextGenerate]_vars

\* C29: every keypair that generate_rsa_keypair(bits, e) returns is built
\* from two distinct primes p # q of bits/2 bits each, and n = p * q.
C29_DistinctPrimes ==
  keypair.tag = "Some" =>
    /\ primes[1] # primes[2]
    /\ \E b \in KeyBits : bits(primes[1]) = b \div 2 /\ bits(primes[2]) = b \div 2
    /\ keypair.val.pub.n = Mul(primes[1], primes[2])

(***************************************************************************)
(* adversary::Server and the test crack of                                 *)
(* tests/set6/challenge41_unpadded_message_recovery.rs                     *)
(***************************************************************************)

\* Server::decrypt: nothing for a ciphertext of the cache, else the textbook
\* decryption (unwrap).
Server_decrypt(cache, keys, c) ==
  IF c \in cache THEN None ELSE unwrap(RSAPrivateKey_textbook_process(keys.priv, c))

\* Server::encrypt of a plaintext of the range of the test, Server::new().
ServerEncrypt ==
  /\ pc = "keyed"
  /\ \E m \in Messages(keypair.val.pub.n, primes) :
       /\ Lt(m, keypair.val.pub.n)
       /\ message' = m
       /\ ciphertext' = unwrap(RSAPublicKey_textbook_process(keypair.val.pub, m))
  /\ server' = [cache |-> {}]
  /\ pc' = "server_encrypted"
  /\ UNCHANGED <<keyVars, plaintext, sigVars, padVars, crackVars, parity, broadcast,
                 recovery, forgery>>

\* server.decrypt(&ciphertext).unwrap()
ServerDecrypt ==
  /\ pc = "server_encrypted"
  /\ plaintext' = unwrap(Server_decrypt(server.cache, keypair.val, ciphertext.val))
  /\ server' = [cache |-> server.cache \cup {ciphertext.val}]
  /\ pc' = "server_decrypted"
  /\ UNCHANGED <<keyVars, message, ciphertext, sigVars, padVars, crackVars, parity,
                 broadcast, recovery, forgery>>

\* unpadded_message_recovery(public_key, 2, ciphertext, |malleated|
\* server.decrypt(malleated).unwrap())
ServerCracked(s, asked) ==
  /\ recovery' = [s |-> s, asked |-> <<asked>>,
                  out |-> unpadded_message_recovery(keypair.val.pub, s,
                            unwrap(Server_decrypt(server.cache, keypair.val, asked)))]
  /\ server' = [cache |-> server.cache \cup {asked}]

ServerCrack ==
  /\ pc = "server_decrypted"
  /\ \E asked \in {malleated_ciphertext(keypair.val.pub, <<2>>, ciphertext.val)} :
       ServerCracked(<<2>>, asked)
  /\ pc' = "cracked"
  /\ UNCHANGED <<keyVars, textVars, sigVars, padVars, crackVars, parity, broadcast, forgery>>

NextServer == GenerateKeypairFromPrimes \/ ServerEncrypt \/ ServerDecrypt \/ ServerCrack

SpecServer == Init /\ [][NextServer]_vars

\* C30: the ciphertext that unpadded_message_recovery submits with s = 2,
\* (2^e mod n) * c mod n, differs from the ciphertext c the server has
\* already decrypted, for every plaintext of the range of the test, so the
\* server answers and the attack does not abort.
C30_MalleatedIsFresh ==
  pc = "cracked" =>
    /\ recovery.asked[1] # ciphertext.val
    /\ recovery.out.tag = "Some"

(***************************************************************************)
(* crack followed through Step 3: on runs whose first searches are short,  *)
(* and from the locals that longer runs have when a later search has ended. *)
(***************************************************************************)

\* Two distinct primes as generate_rsa_keypair(KEY_SIZE, E) draws them: with
\* them the private key decrypts what the public key encrypts, and the oracle
\* of the Adversary is honest.
AdversaryPrimes == <<<<8, 0, 0, 0, 0, 0, 21>>, <<8, 0, 0, 0, 0, 0, 81>>>>

\* Adversary::new
GenerateAdversaryKeypair ==
  /\ pc = "start"
  /\ \E result \in {generate_rsa_keypair_from_primes(E, AdversaryPrimes[1],
                                                     AdversaryPrimes[2])} :
       Keyed(result, AdversaryPrimes[1], AdversaryPrimes[2])

\* Paddings after which the first searches of crack end within MaxOracleCalls.
NearPaddingStreams ==
  {<<255, 221, 50, 216, 20, 105, 60, 134, 128, 18>>,
   <<255, 186, 253, 35, 216, 21, 206, 77, 128, 12>>,
   <<255, 231, 227, 156, 86, 237, 219, 54, 192, 33>>}

\* The locals of crack in Step 2 of a later iteration, before the oracle is
\* asked about the s that it accepts, as runs of the test on AdversaryPrimes
\* and these paddings leave them; calls counts the oracle calls up to that one.
CrackSnapshots ==
  {[data |-> <<>>, stream |-> <<116, 222, 144, 220, 237, 200, 120, 116, 131, 219>>,
    i |-> 3, calls |-> 3069224, r |-> <<>>,
    s_prev |-> <<34, 232, 56>>,
    s |-> <<46, 234, 124>>,
    m_prev |->
      <<<<<<2, 27, 7, 232, 205, 126, 238, 129, 153, 109, 246, 213>>, <<2, 27, 7, 240, 34, 239, 157, 32, 121, 243, 198, 199>>>>,
        <<<<2, 116, 222, 141, 40, 153, 49, 98, 61, 126, 90, 168>>, <<2, 116, 222, 148, 126, 9, 224, 1, 30, 4, 42, 154>>>>,
        <<<<2, 206, 181, 49, 131, 179, 116, 66, 225, 142, 190, 122>>, <<2, 206, 181, 55, 217, 63, 61, 19, 198, 156, 78, 146>>>>>>],
   [data |-> <<>>, stream |-> <<116, 222, 144, 220, 237, 200, 120, 116, 131, 219>>,
    i |-> 4, calls |-> 3069302, r |-> <<3, 229>>,
    s_prev |-> <<46, 234, 124>>,
    s |-> <<101, 118, 243>>,
    m_prev |->
      <<<<<<2, 116, 222, 144, 112, 63, 195, 67, 44, 159, 147, 155>>, <<2, 116, 222, 148, 126, 9, 224, 1, 30, 4, 42, 154>>>>>>],
   [data |-> <<>>, stream |-> <<116, 222, 144, 220, 237, 200, 120, 116, 131, 219>>,
    i |-> 5, calls |-> 3069345, r |-> <<8, 0>>,
    s_prev |-> <<101, 118, 243>>,
    s |-> <<208, 108, 195>>,
    m_prev |->
      <<<<<<2, 116, 222, 144, 112, 63, 195, 67, 44, 159, 147, 155>>, <<2, 116, 222, 145, 173, 214, 135, 166, 183, 124, 163, 47>>>>>>],
   [data |-> <<>>, stream |-> <<116, 222, 144, 220, 237, 200, 120, 116, 131, 219>>,
    i |-> 6, calls |-> 3069607, r |-> <<17, 0>>,
    s_prev |-> <<208, 108, 195>>,
    s |-> <<1, 186, 231, 29>>,
    m_prev |->
      <<<<<<2, 116, 222, 144, 112, 63, 195, 67, 44, 159, 147, 155>>, <<2, 116, 222, 145, 85, 28, 233, 49, 247, 190, 14, 231>>>>>>],
   [data |-> <<>>, stream |-> <<116, 222, 144, 220, 237, 200, 120, 116, 131, 219>>,
    i |-> 10, calls |-> 3070481, r |-> <<1, 34, 0>>,
    s_prev |-> <<14, 189, 109, 1>>,
    s |-> <<29, 131, 102, 119>>,
    m_prev |->
      <<<<<<2, 116, 222, 144, 217, 170, 26, 250, 179, 46, 198, 249>>, <<2, 116, 222, 144, 233, 233, 10, 210, 235, 167, 183, 44>>>>>>],
   [data |-> <<>>, stream |-> <<116, 222, 144, 220, 237, 200, 120, 116, 131, 219>>,
    i |-> 20, calls |-> 3071740, r |-> <<4, 138, 62, 8>>,
    s_prev |-> <<59, 36, 2, 41, 236>>,
    s |-> <<118, 72, 5, 36, 68>>,
    m_prev |->
      <<<<<<2, 116, 222, 144, 220, 236, 78, 46, 243, 128, 164, 166>>, <<2, 116, 222, 144, 220, 238, 157, 195, 169, 135, 114, 164>>>>>>],
   [data |-> <<>>, stream |-> <<116, 222, 144, 220, 237, 200, 120, 116, 131, 219>>,
    i |-> 30, calls |-> 3073930, r |-> <<18, 40, 250, 204, 244>>,
    s_prev |-> <<236, 144, 45, 28, 228, 78>>,
    s |-> <<1, 217, 32, 90, 70, 51, 22>>,
    m_prev |->
      <<<<<<2, 116, 222, 144, 220, 237, 200, 84, 109, 169, 155, 213>>, <<2, 116, 222, 144, 220, 237, 200, 240, 3, 218, 28, 38>>>>>>],
   [data |-> <<>>, stream |-> <<116, 222, 144, 220, 237, 200, 120, 116, 131, 219>>,
    i |-> 40, calls |-> 3076241, r |-> <<72, 163, 235, 53, 209, 72>>,
    s_prev |-> <<3, 178, 64, 180, 166, 115, 193, 226>>,
    s |-> <<7, 100, 129, 105, 77, 8, 229, 46>>,
    m_prev |->
      <<<<<<2, 116, 222, 144, 220, 237, 200, 120, 82, 255, 58, 252>>, <<2, 116, 222, 144, 220, 237, 200, 120, 152, 65, 100, 208>>>>>>],
   [data |-> <<>>, stream |-> <<116, 222, 144, 220, 237, 200, 120, 116, 131, 219>>,
    i |-> 50, calls |-> 3079485, r |-> <<1, 34, 143, 172, 215, 73, 176, 130>>,
    s_prev |-> <<14, 201, 2, 210, 154, 77, 31, 79, 201>>,
    s |-> <<29, 146, 5, 165, 52, 154, 127, 245, 169>>,
    m_prev |->
      <<<<<<2, 116, 222, 144, 220, 237, 200, 120, 116, 130, 51, 249>>, <<2, 116, 222, 144, 220, 237, 200, 120, 116, 144, 229, 14>>>>>>],
   [data |-> <<>>, stream |-> <<116, 222, 144, 220, 237, 200, 120, 116, 131, 219>>,
    i |-> 60, calls |-> 3081284, r |-> <<4, 138, 62, 179, 93, 38, 197, 12, 113>>,
    s_prev |-> <<59, 36, 11, 74, 105, 53, 39, 45, 232, 167>>,
    s |-> <<118, 72, 22, 148, 210, 106, 78, 115, 31, 118>>,
    m_prev |->
      <<<<<<2, 116, 222, 144, 220, 237, 200, 120, 116, 131, 215, 34>>, <<2, 116, 222, 144, 220, 237, 200, 120, 116, 131, 219, 118>>>>>>],
   [data |-> <<>>, stream |-> <<116, 222, 144, 220, 237, 200, 120, 116, 131, 219>>,
    i |-> 67, calls |-> 3082653, r |-> <<2, 69, 31, 89, 174, 147, 98, 134, 80, 19>>,
    s_prev |-> <<29, 146, 5, 165, 52, 154, 147, 157, 249, 252, 243>>,
    s |-> <<59, 36, 11, 74, 105, 53, 39, 59, 245, 232, 231>>,
    m_prev |->
      <<<<<<2, 116, 222, 144, 220, 237, 200, 120, 116, 131, 218, 252>>, <<2, 116, 222, 144, 220, 237, 200, 120, 116, 131, 219, 2>>>>>>],
   [data |-> <<>>, stream |-> <<116, 222, 144, 220, 237, 200, 120, 116, 131, 219>>,
    i |-> 68, calls |-> 3082804, r |-> <<4, 138, 62, 179, 93, 38, 197, 12, 160, 231>>,
    s_prev |-> <<59, 36, 11, 74, 105, 53, 39, 59, 245, 232, 231>>,
    s |-> <<118, 72, 22, 148, 210, 106, 78, 119, 255, 118, 13>>,
    m_prev |->
      <<<<<<2, 116, 222, 144, 220, 237, 200, 120, 116, 131, 219, 0>>, <<2, 116, 222, 144, 220, 237, 200, 120, 116, 131, 219, 2>>>>>>],
   [data |-> <<>>, stream |-> <<116, 222, 144, 220, 237, 200, 120, 116, 131, 219>>,
    i |-> 69, calls |-> 3082843, r |-> <<9, 20, 125, 102, 186, 77, 138, 25, 66, 0>>,
    s_prev |-> <<118, 72, 22, 148, 210, 106, 78, 119, 255, 118, 13>>,
    s |-> <<236, 144, 45, 41, 164, 212, 156, 240, 4, 2, 193>>,
    m_prev |->
      <<<<<<2, 116, 222, 144, 220, 237, 200, 120, 116, 131, 219, 0>>, <<2, 116, 222, 144, 220, 237, 200, 120, 116, 131, 219, 1>>>>>>],
   [data |-> <<72, 105>>, stream |-> <<22, 182, 66, 81, 195, 59, 132, 74>>,
    i |-> 2, calls |-> 135734, r |-> <<>>,
    s_prev |-> <<1, 203, 158>>,
    s |-> <<2, 39, 138>>,
    m_prev |->
      <<<<<<2, 22, 181, 207, 234, 160, 71, 226, 203, 7, 163, 5>>, <<2, 22, 182, 94, 129, 54, 88, 70, 1, 142, 205, 43>>>>,
        <<<<2, 58, 91, 117, 110, 185, 23, 75, 21, 143, 185, 86>>, <<2, 58, 92, 4, 5, 79, 39, 174, 76, 22, 227, 124>>>>,
        <<<<2, 94, 1, 26, 242, 209, 230, 179, 96, 23, 207, 166>>, <<2, 94, 1, 169, 137, 103, 247, 22, 150, 158, 249, 204>>>>,
        <<<<2, 129, 166, 192, 118, 234, 182, 27, 170, 159, 229, 247>>, <<2, 129, 167, 79, 13, 128, 198, 126, 225, 39, 16, 29>>>>,
        <<<<2, 165, 76, 101, 251, 3, 133, 131, 245, 39, 252, 71>>, <<2, 165, 76, 244, 145, 153, 149, 231, 43, 175, 38, 109>>>>,
        <<<<2, 200, 242, 11, 127, 28, 84, 236, 63, 176, 18, 152>>, <<2, 200, 242, 154, 21, 178, 101, 79, 118, 55, 60, 190>>>>,
        <<<<2, 236, 151, 177, 3, 53, 36, 84, 138, 56, 40, 232>>, <<2, 236, 152, 63, 153, 203, 52, 183, 192, 191, 83, 14>>>>>>],
   [data |-> <<72, 105>>, stream |-> <<22, 182, 66, 81, 195, 59, 132, 74>>,
    i |-> 3, calls |-> 159266, r |-> <<>>,
    s_prev |-> <<2, 39, 138>>,
    s |-> <<2, 131, 118>>,
    m_prev |->
      <<<<<<2, 22, 182, 3, 169, 152, 76, 201, 236, 23, 146, 7>>, <<2, 22, 182, 94, 129, 54, 88, 70, 1, 142, 205, 43>>>>,
        <<<<2, 200, 242, 96, 85, 133, 111, 78, 132, 186, 13, 206>>, <<2, 200, 242, 154, 21, 178, 101, 79, 118, 55, 60, 190>>>>>>],
   [data |-> <<72, 105>>, stream |-> <<22, 182, 66, 81, 195, 59, 132, 74>>,
    i |-> 4, calls |-> 159268, r |-> <<45>>,
    s_prev |-> <<2, 131, 118>>,
    s |-> <<5, 98, 215>>,
    m_prev |->
      <<<<<<2, 22, 182, 40, 159, 194, 239, 79, 230, 252, 58, 210>>, <<2, 22, 182, 94, 129, 54, 88, 70, 1, 142, 205, 43>>>>>>],
   [data |-> <<72, 105>>, stream |-> <<22, 182, 66, 81, 195, 59, 132, 74>>,
    i |-> 5, calls |-> 162516, r |-> <<3, 95>>,
    s_prev |-> <<5, 98, 215>>,
    s |-> <<103, 75, 3>>,
    m_prev |->
      <<<<<<2, 22, 182, 59, 160, 32, 39, 119, 14, 78, 148, 160>>, <<2, 22, 182, 94, 129, 54, 88, 70, 1, 142, 205, 43>>>>>>],
   [data |-> <<72, 105>>, stream |-> <<22, 182, 66, 81, 195, 59, 132, 74>>,
    i |-> 6, calls |-> 163145, r |-> <<8, 87>>,
    s_prev |-> <<103, 75, 3>>,
    s |-> <<255, 138, 27>>,
    m_prev |->
      <<<<<<2, 22, 182, 65, 118, 133, 25, 193, 35, 21, 6, 11>>, <<2, 22, 182, 67, 240, 252, 161, 83, 123, 104, 15, 21>>>>>>],
   [data |-> <<72, 105>>, stream |-> <<22, 182, 66, 81, 195, 59, 132, 74>>,
    i |-> 10, calls |-> 164820, r |-> <<154, 235>>,
    s_prev |-> <<9, 59, 105, 44>>,
    s |-> <<18, 138, 207, 90>>,
    m_prev |->
      <<<<<<2, 22, 182, 66, 63, 20, 246, 95, 216, 94, 208, 219>>, <<2, 22, 182, 66, 86, 212, 30, 28, 86, 93, 201, 176>>>>>>],
   [data |-> <<72, 105>>, stream |-> <<22, 182, 66, 81, 195, 59, 132, 74>>,
    i |-> 20, calls |-> 166918, r |-> <<2, 110, 23, 58>>,
    s_prev |-> <<37, 58, 163, 80, 248>>,
    s |-> <<74, 117, 90, 250, 222>>,
    m_prev |->
      <<<<<<2, 22, 182, 66, 81, 188, 247, 50, 199, 108, 118, 95>>, <<2, 22, 182, 66, 81, 195, 198, 163, 225, 214, 231, 234>>>>>>],
   [data |-> <<72, 105>>, stream |-> <<22, 182, 66, 81, 195, 59, 132, 74>>,
    i |-> 30, calls |-> 170856, r |-> <<9, 184, 98, 150, 233>>,
    s_prev |-> <<148, 235, 12, 253, 44, 124>>,
    s |-> <<1, 41, 214, 26, 15, 13, 210>>,
    m_prev |->
      <<<<<<2, 22, 182, 66, 81, 195, 58, 20, 154, 150, 126, 212>>, <<2, 22, 182, 66, 81, 195, 59, 204, 175, 58, 87, 189>>>>>>],
   [data |-> <<72, 105>>, stream |-> <<22, 182, 66, 81, 195, 59, 132, 74>>,
    i |-> 40, calls |-> 174540, r |-> <<38, 225, 138, 92, 189, 99>>,
    s_prev |-> <<2, 83, 172, 52, 46, 240, 248, 255>>,
    s |-> <<4, 167, 88, 104, 93, 229, 45, 74>>,
    m_prev |->
      <<<<<<2, 22, 182, 66, 81, 195, 59, 131, 251, 203, 1, 80>>, <<2, 22, 182, 66, 81, 195, 59, 132, 105, 208, 42, 58>>>>>>],
   [data |-> <<72, 105>>, stream |-> <<22, 182, 66, 81, 195, 59, 132, 74>>,
    i |-> 50, calls |-> 176519, r |-> <<155, 134, 41, 114, 247, 83, 89>>,
    s_prev |-> <<9, 78, 176, 208, 187, 229, 149, 181, 23>>,
    s |-> <<18, 157, 97, 161, 119, 203, 53, 89, 93>>,
    m_prev |->
      <<<<<<2, 22, 182, 66, 81, 195, 59, 132, 73, 255, 19, 44>>, <<2, 22, 182, 66, 81, 195, 59, 132, 74, 26, 52, 105>>>>>>],
   [data |-> <<72, 105>>, stream |-> <<22, 182, 66, 81, 195, 59, 132, 74>>,
    i |-> 60, calls |-> 177487, r |-> <<2, 110, 24, 165, 203, 221, 78, 173, 28>>,
    s_prev |-> <<37, 58, 195, 66, 239, 150, 126, 80, 85, 247>>,
    s |-> <<74, 117, 134, 133, 223, 44, 252, 201, 155, 20>>,
    m_prev |->
      <<<<<<2, 22, 182, 66, 81, 195, 59, 132, 74, 0, 69, 83>>, <<2, 22, 182, 66, 81, 195, 59, 132, 74, 0, 74, 29>>>>>>],
   [data |-> <<72, 105>>, stream |-> <<22, 182, 66, 81, 195, 59, 132, 74>>,
    i |-> 68, calls |-> 178385, r |-> <<2, 110, 24, 165, 203, 221, 78, 173, 165, 163>>,
    s_prev |-> <<37, 58, 195, 66, 239, 150, 126, 108, 255, 213, 36>>,
    s |-> <<74, 117, 134, 133, 223, 44, 252, 218, 20, 95, 34>>,
    m_prev |->
      <<<<<<2, 22, 182, 66, 81, 195, 59, 132, 74, 0, 72, 99>>, <<2, 22, 182, 66, 81, 195, 59, 132, 74, 0, 72, 105>>>>>>],
   [data |-> <<72, 105>>, stream |-> <<22, 182, 66, 81, 195, 59, 132, 74>>,
    i |-> 69, calls |-> 178412, r |-> <<4, 220, 49, 75, 151, 186, 157, 91, 75, 97>>,
    s_prev |-> <<74, 117, 134, 133, 223, 44, 252, 218, 20, 95, 34>>,
    s |-> <<148, 235, 13, 11, 190, 89, 249, 180, 43, 249, 144>>,
    m_prev |->
      <<<<<<2, 22, 182, 66, 81, 195, 59, 132, 74, 0, 72, 103>>, <<2, 22, 182, 66, 81, 195, 59, 132, 74, 0, 72, 105>>>>>>],
   [data |-> <<72, 105>>, stream |-> <<22, 182, 66, 81, 195, 59, 132, 74>>,
    i |-> 70, calls |-> 178590, r |-> <<9, 184, 98, 151, 47, 117, 58, 182, 151, 111>>,
    s_prev |-> <<148, 235, 13, 11, 190, 89, 249, 180, 43, 249, 144>>,
    s |-> <<1, 41, 214, 26, 23, 124, 179, 243, 104, 108, 167, 250>>,
    m_prev |->
      <<<<<<2, 22, 182, 66, 81, 195, 59, 132, 74, 0, 72, 104>>, <<2, 22, 182, 66, 81, 195, 59, 132, 74, 0, 72, 105>>>>>>]}

\* public.encrypt::<PKCS1v1_5>(data) of crack, keeping the padded block.
CrackPadded(block_len, data, stream, padded) ==
  pad_call' = [NoPadCall EXCEPT !.block_len = block_len, !.plaintext = data,
                                !.stream = stream, !.padded = padded]

\* crack up to the loop, on a padding of NearPaddingStreams.
CrackStartNear ==
  /\ pc = "keyed"
  /\ \E stream \in NearPaddingStreams :
       \E padded \in {PKCS1v1_5_pad(len_bytes(keypair.val.pub), <<>>, stream)} :
         /\ CrackPadded(len_bytes(keypair.val.pub), <<>>, stream, padded)
         /\ \E c \in {and_then_encrypt(keypair.val.pub, padded)} : CrackBegun(<<>>, c)
  /\ UNCHANGED <<keyVars, textVars, sigVars, unpad_call, accepted, padded_hash, attackVars>>

\* crack in Step 2 of iteration snap.i, about to ask the oracle about snap.s;
\* of the calls so far all but one count as followed.
CrackResumed(snap, c) ==
  /\ c.tag = "Some"
  /\ pc' = "searching"
  /\ crack' = [data |-> snap.data, c |-> c, s_prev |-> snap.s_prev,
               m_prev |-> snap.m_prev, i |-> snap.i, r |-> snap.r, s |-> snap.s,
               calls |-> MaxOracleCalls - 1, out |-> None]

CrackResume ==
  /\ pc = "keyed"
  /\ \E snap \in CrackSnapshots :
       \E padded \in {PKCS1v1_5_pad(len_bytes(keypair.val.pub), snap.data, snap.stream)} :
         /\ CrackPadded(len_bytes(keypair.val.pub), snap.data, snap.stream, padded)
         /\ \E c \in {and_then_encrypt(keypair.val.pub, padded)} : CrackResumed(snap, c)
  /\ UNCHANGED <<keyVars, textVars, sigVars, unpad_call, accepted, padded_hash, attackVars>>

NextNarrow ==
  GenerateAdversaryKeypair \/ CrackStartNear \/ CrackResume \/ CrackSearch \/ CrackNarrow

SpecNarrow == Init /\ [][NextNarrow]_vars

\* The interval ab holds m.
IntervalHolds(ab, m) == Le(ab[1], m) /\ Le(m, ab[2])

\* C23: with an honest oracle, from the first interval on and after every
\* Step 3, the list of intervals is not empty and one of its intervals holds
\* the padded plaintext m0.
C23_Containment ==
  (crack.i >= 1 /\ pad_call.padded.tag = "Some") =>
    /\ crack.m_prev # <<>>
    /\ \E j \in 1..Len(crack.m_prev) : IntervalHolds(crack.m_prev[j], pad_call.padded.val)

\* Step 3 has run three times in one run, from the first interval on, and m0
\* is still held.
C23_Witness ==
  /\ pc = "searching"
  /\ crack.i = 4
  /\ crack.calls < MaxOracleCalls - 1
  /\ \E j \in 1..Len(crack.m_prev) : IntervalHolds(crack.m_prev[j], pad_call.padded.val)

\* A step of Steps 3 and 4.
NarrowStep == pc = "narrowing" /\ pc' # "narrowing"

\* x is what Step 3 leaves of ab for the r whose window is lo..hi
\* (lo = 2B + r n, hi = 3B - 1 + r n): its lower bound is the larger of a and
\* the least integer whose product with s_i reaches lo, its upper bound the
\* smaller of b and the greatest integer whose product with s_i stays within hi.
LeftOfWindow(ab, s_i, x, lo, hi) ==
  /\ Le(ab[1], x[1])
  /\ Le(lo, Mul(x[1], s_i))
  /\ x[1] = ab[1] \/ Lt(Mul(Sub(x[1], One), s_i), lo)
  /\ Le(x[2], ab[2])
  /\ Le(Mul(x[2], s_i), hi)
  /\ x[2] = ab[2] \/ Lt(hi, Mul(Add(x[2], One), s_i))

LeftOfMultiple(key, ab, s_i, x, rn) ==
  LeftOfWindow(ab, s_i, x, Add(two_b(key), rn), Add(Sub(three_b(key), One), rn))

\* x is what Step 3 leaves of ab for r = floor(x[1] s_i / n).
LeftOf(key, ab, s_i, x) ==
  \E rn \in {Mul(Div(Mul(x[1], s_i), key.n), key.n)} : LeftOfMultiple(key, ab, s_i, x, rn)

\* The r of Step 3 for the interval ab.
NarrowRange(key, ab, s_i) ==
  BigRangeInclusive(div_ceil(Add(Sub(Mul(ab[1], s_i), three_b(key)), One), key.n),
                    div_floor(Sub(Mul(ab[2], s_i), two_b(key)), key.n))

IntervalLt(x, y) == IntervalLe(x, y) /\ x # y

\* m_i is the list that Step 3 makes of m_prev and s_i.
Narrows(key, m_prev, s_i, m_i) ==
  /\ \A j \in 1..Len(m_prev) : \A r \in NarrowRange(key, m_prev[j], s_i) :
       \E h \in 1..Len(m_i) : m_i[h] = crack_interval(key, m_prev[j], s_i, r)
  /\ \A h \in 1..Len(m_i) :
       /\ Le(m_i[h][1], m_i[h][2])
       /\ \E j \in 1..Len(m_prev) : LeftOf(key, m_prev[j], s_i, m_i[h])
  /\ \A h \in 1..(Len(m_i) - 1) : IntervalLt(m_i[h], m_i[h + 1])

\* C24: Step 3 adds to M_i, for every interval [a, b] of M_{i-1} and every r
\* from ceil((a s_i - 3B + 1) / n) to floor((b s_i - 2B) / n), the interval
\* [max(a, ceil((2B + r n) / s_i)), min(b, floor((3B - 1 + r n) / s_i))]; every
\* interval of M_i has a' <= b' and lies within an interval of M_{i-1}, and M_i
\* is sorted and without duplicates.
C24_Step3Narrows ==
  [][NarrowStep => Narrows(keypair.val.pub, crack.m_prev, crack.s, crack'.m_prev)]_vars

\* Step 3 of the second iteration has made two intervals of several.
C24_Witness ==
  /\ pc = "searching"
  /\ crack.i = 3
  /\ Len(crack.m_prev) = 2
  /\ IntervalLt(crack.m_prev[1], crack.m_prev[2])
  /\ \A h \in 1..2 : Le(crack.m_prev[h][1], crack.m_prev[h][2])

====
